---- MODULE Spec2Model ----
(***************************************************************************)
(* The escape-ship contract layer: four gRPC services (Account, Order,     *)
(* Payment, Product) declared in .proto files with google.api.http         *)
(* bindings, the generated AccountService client/server stubs, and the     *)
(* HTTP/JSON gateway that proxies HTTP requests onto the same RPC methods. *)
(*                                                                         *)
(* SpecRoute explores the gateway's translation of raw HTTP requests       *)
(* (match, bind, invoke).  Spec explores whole calls over either           *)
(* transport: client stub, wire, server handler, interceptor, service      *)
(* method, reply, cancellation and the gateway's HTTP answer.              *)
(***************************************************************************)
EXTENDS Integers, Sequences, FiniteSets, TLC

\* ------------------------------------------------------------------ bounds
\* longest raw request path, in segments
MaxPathLen == 3
\* most members a raw JSON body object carries
MaxBodyFields == 1
\* most fields a caller sets to a non-default value in a request message
MaxSetFields == 1

\* ------------------------------------------------------------- the schemas
AccountMethods == {"GetKakaoLoginURL", "GetKakaoCallBack", "Login", "Register"}
OrderMethods == {"InsertOrder", "GetAllOrders"}
PaymentMethods == {"KakaoReady", "KakaoApprove", "KakaoCancel"}
ProductMethods == {"GetProducts", "GetProductByID", "PostProducts", "GetProductOptions"}
Methods == AccountMethods \cup OrderMethods \cup PaymentMethods \cup ProductMethods

ServiceOf(m) ==
  IF m \in AccountMethods THEN "AccountService"
  ELSE IF m \in OrderMethods THEN "OrderService"
  ELSE IF m \in PaymentMethods THEN "PaymentService"
  ELSE "ProductService"

\* proto package of all four files
ProtoPackage == "go.escape.ship.proto.v1"

\* The fields of each method's request message, with their declared types.
NoFields == [f \in {} |-> "string"]

AccountRequestFields(m) ==
  CASE m = "GetKakaoLoginURL" -> NoFields
    [] m = "GetKakaoCallBack" -> [code |-> "string"]
    [] m = "Login" -> [email |-> "string", password |-> "string"]
    [] m = "Register" -> [email |-> "string", password |-> "string"]

OrderRequestFields(m) ==
  CASE m = "InsertOrder" ->
         [user_id |-> "string", order_number |-> "string", status |-> "string",
          total_price |-> "int64", quantity |-> "int32", payment_method |-> "string",
          shipping_fee |-> "int32", shipping_address |-> "string",
          paid_at |-> "string", memo |-> "string", items |-> "repeated"]
    [] m = "GetAllOrders" -> NoFields

PaymentRequestFields(m) ==
  CASE m = "KakaoReady" ->
         [partner_order_id |-> "string", partner_user_id |-> "string",
          item_name |-> "string", quantity |-> "int32",
          total_amount |-> "int64", tax_free_amount |-> "int64"]
    [] m = "KakaoApprove" ->
         [tid |-> "string", partner_order_id |-> "string",
          partner_user_id |-> "string", pg_token |-> "string"]
    [] m = "KakaoCancel" ->
         [partner_order_id |-> "string", cancel_amount |-> "string",
          cancel_tax_free_amount |-> "int64", cancel_vat_amount |-> "int64",
          cancel_available_amount |-> "int64"]

\* mutant: GetProductOptionsRequest names its field product_id
ProductRequestFields_RenamedId(m) ==
  CASE m = "GetProducts" -> NoFields
    [] m = "GetProductByID" -> [id |-> "string"]
    [] m = "PostProducts" ->
         [name |-> "string", categories |-> "repeated", price |-> "int64",
          image_url |-> "string"]
    [] m = "GetProductOptions" -> [product_id |-> "string"]

ProductRequestFields(m) ==
  CASE m = "GetProducts" -> NoFields
    [] m = "GetProductByID" -> [id |-> "string"]
    [] m = "PostProducts" ->
         [name |-> "string", categories |-> "repeated", price |-> "int64",
          image_url |-> "string"]
    [] m = "GetProductOptions" -> [id |-> "string"]

RequestFields(m) ==
  IF m \in AccountMethods THEN AccountRequestFields(m)
  ELSE IF m \in OrderMethods THEN OrderRequestFields(m)
  ELSE IF m \in PaymentMethods THEN PaymentRequestFields(m)
  ELSE ProductRequestFields(m)

\* proto3: a field that is not set holds the default of its type
DefaultOf(type) ==
  CASE type = "string" -> ""
    [] type = "int32" -> "0"
    [] type = "int64" -> "0"
    [] type = "repeated" -> "[]"

\* values a caller or a JSON body gives a field
Vals == {"prod001", "v2"}

ZeroMsg(m) == [f \in DOMAIN RequestFields(m) |-> DefaultOf(RequestFields(m)[f])]

RECURSIVE KSubsets(_, _)
KSubsets(S, k) ==
  IF k = 0 THEN {{}}
  ELSE LET prev == KSubsets(S, k - 1)
       IN  prev \cup {D \cup {x} : D \in prev, x \in S}

\* the request messages a caller builds: at most MaxSetFields fields set
Msgs(m) ==
  {[f \in DOMAIN RequestFields(m) |->
       IF f \in DOMAIN set THEN set[f] ELSE DefaultOf(RequestFields(m)[f])] :
     set \in UNION {[D -> Vals] : D \in KSubsets(DOMAIN RequestFields(m), MaxSetFields)}}

\* -------------------------------------------------- google.api.http rules
\* One record per http option of the four service declarations.  A path
\* template is its sequence of segments; "{id}" is a path parameter.
\* mutant: Login and Register carry each other's path
AccountRules_Swapped ==
  { [method |-> "GetKakaoLoginURL", verb |-> "GET", path |-> <<"oauth", "kakao", "login">>, body |-> ""],
    [method |-> "GetKakaoCallBack", verb |-> "POST", path |-> <<"oauth", "kakao", "callback">>, body |-> "*"],
    [method |-> "Login", verb |-> "POST", path |-> <<"register">>, body |-> "*"],
    [method |-> "Register", verb |-> "POST", path |-> <<"login">>, body |-> "*"] }

AccountRules ==
  { [method |-> "GetKakaoLoginURL", verb |-> "GET", path |-> <<"oauth", "kakao", "login">>, body |-> ""],
    [method |-> "GetKakaoCallBack", verb |-> "POST", path |-> <<"oauth", "kakao", "callback">>, body |-> "*"],
    [method |-> "Login", verb |-> "POST", path |-> <<"login">>, body |-> "*"],
    [method |-> "Register", verb |-> "POST", path |-> <<"register">>, body |-> "*"] }

OrderRules ==
  { [method |-> "InsertOrder", verb |-> "POST", path |-> <<"v1", "order", "insert">>, body |-> "*"],
    [method |-> "GetAllOrders", verb |-> "GET", path |-> <<"v1", "order">>, body |-> ""] }

\* mutant: KakaoCancel is bound to the path of KakaoApprove
PaymentRules_SharedPath ==
  { [method |-> "KakaoReady", verb |-> "POST", path |-> <<"payment", "kakao", "ready">>, body |-> "*"],
    [method |-> "KakaoApprove", verb |-> "POST", path |-> <<"payment", "kakao", "approve">>, body |-> "*"],
    [method |-> "KakaoCancel", verb |-> "POST", path |-> <<"payment", "kakao", "approve">>, body |-> "*"] }

PaymentRules ==
  { [method |-> "KakaoReady", verb |-> "POST", path |-> <<"payment", "kakao", "ready">>, body |-> "*"],
    [method |-> "KakaoApprove", verb |-> "POST", path |-> <<"payment", "kakao", "approve">>, body |-> "*"],
    [method |-> "KakaoCancel", verb |-> "POST", path |-> <<"payment", "kakao", "cancel">>, body |-> "*"] }

\* mutant: the template of GetProductByID lost its literal segment
ProductRules_BareParam ==
  { [method |-> "GetProducts", verb |-> "GET", path |-> <<"products">>, body |-> ""],
    [method |-> "GetProductByID", verb |-> "GET", path |-> <<"{id}">>, body |-> ""],
    [method |-> "PostProducts", verb |-> "POST", path |-> <<"products">>, body |-> "*"],
    [method |-> "GetProductOptions", verb |-> "POST", path |-> <<"product", "{id}", "options">>, body |-> "*"] }

ProductRules ==
  { [method |-> "GetProducts", verb |-> "GET", path |-> <<"products">>, body |-> ""],
    [method |-> "GetProductByID", verb |-> "GET", path |-> <<"products", "{id}">>, body |-> ""],
    [method |-> "PostProducts", verb |-> "POST", path |-> <<"products">>, body |-> "*"],
    [method |-> "GetProductOptions", verb |-> "POST", path |-> <<"product", "{id}", "options">>, body |-> "*"] }

HttpRules == AccountRules \cup OrderRules \cup PaymentRules \cup ProductRules

RuleOf(m) == CHOOSE b \in HttpRules : b.method = m

\* the endpoint list of the package documentation ("HTTP/JSON Gateway"),
\* the routes an HTTP caller is told to use
DocEndpoints(m) ==
  CASE m = "GetKakaoLoginURL" -> [verb |-> "GET", path |-> <<"oauth", "kakao", "login">>]
    [] m = "GetKakaoCallBack" -> [verb |-> "POST", path |-> <<"oauth", "kakao", "callback">>]
    [] m = "Login" -> [verb |-> "POST", path |-> <<"login">>]
    [] m = "Register" -> [verb |-> "POST", path |-> <<"register">>]
    [] m = "GetProducts" -> [verb |-> "GET", path |-> <<"products">>]
    [] m = "GetProductByID" -> [verb |-> "GET", path |-> <<"products", "{id}">>]
    [] m = "PostProducts" -> [verb |-> "POST", path |-> <<"products">>]
    [] m = "GetProductOptions" -> [verb |-> "POST", path |-> <<"product", "{id}", "options">>]
    [] m = "InsertOrder" -> [verb |-> "POST", path |-> <<"v1", "order", "insert">>]
    [] m = "GetAllOrders" -> [verb |-> "GET", path |-> <<"v1", "order">>]
    [] m = "KakaoReady" -> [verb |-> "POST", path |-> <<"payment", "kakao", "ready">>]
    [] m = "KakaoApprove" -> [verb |-> "POST", path |-> <<"payment", "kakao", "approve">>]
    [] m = "KakaoCancel" -> [verb |-> "POST", path |-> <<"payment", "kakao", "cancel">>]

\* ------------------------------------------------ gateway: route matching
IsVar(seg) == seg = "{id}"
VarField(seg) == "id"

PathMatches(tmpl, path) ==
  /\ Len(tmpl) = Len(path)
  /\ \A i \in 1..Len(tmpl) : IsVar(tmpl[i]) \/ tmpl[i] = path[i]

MatchRoute(verb, path) ==
  {b \in HttpRules : b.verb = verb /\ PathMatches(b.path, path)}

PathParams(tmpl, path) ==
  [f \in {VarField(tmpl[i]) : i \in {j \in 1..Len(tmpl) : IsVar(tmpl[j])}} |->
     path[CHOOSE i \in 1..Len(tmpl) : IsVar(tmpl[i]) /\ VarField(tmpl[i]) = f]]

\* ------------------------------------------- gateway: request translation
NoParams == [f \in {} |-> ""]
EmptyBody == [ok |-> TRUE, fields |-> NoParams]
MalformedBody == [ok |-> FALSE, fields |-> NoParams]

\* whether the request can be decoded into the input message of rule b; a
\* strict decoder refuses a member the message does not have, a lenient one
\* drops it
BindOK(b, params, body, strict) ==
  /\ DOMAIN params \subseteq DOMAIN RequestFields(b.method)
  /\ b.body = "*" =>
       /\ body.ok
       /\ strict => DOMAIN body.fields \subseteq DOMAIN RequestFields(b.method)

\* the input message: the JSON body's members, overlaid by the path parameters
BindRequest(b, params, body) ==
  [f \in DOMAIN RequestFields(b.method) |->
     IF f \in DOMAIN params THEN params[f]
     ELSE IF b.body = "*" /\ f \in DOMAIN body.fields THEN body.fields[f]
     ELSE DefaultOf(RequestFields(b.method)[f])]


\* ------------------------------------------------------------ failure kinds
Kinds ==
  {"invalid_argument", "not_found", "unauthenticated", "permission_denied",
   "resource_exhausted", "unavailable", "internal", "unimplemented"}
CtxKinds == {"canceled", "deadline_exceeded"}

\* the gateway's HTTP status for an RPC failure kind
HTTPStatusFromCode(kind) ==
  CASE kind = "nil" -> 200
    [] kind = "invalid_argument" -> 400
    [] kind = "unauthenticated" -> 401
    [] kind = "permission_denied" -> 403
    [] kind = "not_found" -> 404
    [] kind = "resource_exhausted" -> 429
    [] kind = "canceled" -> 499
    [] kind = "internal" -> 500
    [] kind = "unimplemented" -> 501
    [] kind = "unavailable" -> 503
    [] kind = "deadline_exceeded" -> 504

\* ------------------------------------------------------- responses, returns
NilResp == [type |-> "nil", val |-> "nil"]
\* new(XxxResponse): a freshly allocated, empty output message
NewResp(m) == [type |-> m, val |-> "zero"]
\* contents a service implementation gives its response
RespVals == {"r1", "r2"}
Ret(resp, err) == [resp |-> resp, err |-> err]
NoRet == Ret(NilResp, "none")

\* ---------------------------------------------- generated AccountService stub
\* the full method name each client method hands to Invoke
FullMethodName(m) ==
  CASE m = "GetKakaoLoginURL" -> "/go.escape.ship.proto.v1.AccountService/GetKakaoLoginURL"
    [] m = "GetKakaoCallBack" -> "/go.escape.ship.proto.v1.AccountService/GetKakaoCallBack"
    [] m = "Login" -> "/go.escape.ship.proto.v1.AccountService/Login"
    [] m = "Register" -> "/go.escape.ship.proto.v1.AccountService/Register"
    [] OTHER -> "/" \o ProtoPackage \o "." \o ServiceOf(m) \o "/" \o m

\* mutant: the client method calls Invoke with a background context
ClientCtx_Background(ctx) == "none"

\* the context a client method hands to Invoke: the caller's own
ClientCtx(ctx) == ctx

\* mutant: the client method returns out whatever Invoke returned
ClientReturn_KeepsOut(out, err) == Ret(out, err)

\* mutant: the client method wraps the error and loses its kind
ClientReturn_Recodes(out, err) ==
  IF err # "nil" THEN Ret(NilResp, "internal") ELSE Ret(out, "nil")

\* what a client method returns once Invoke has returned err, with out filled
\* as far as Invoke got
ClientReturn(out, err) ==
  IF err # "nil" THEN Ret(NilResp, err) ELSE Ret(out, "nil")

\* mutant: the default method answers with an empty response
Unimplemented_EmptyResponse(m) == Ret(NewResp(m), "nil")

\* UnimplementedXxxServer: the default of every method
Unimplemented(m) == Ret(NilResp, "unimplemented")

\* the dispatch table: ServiceName and, per entry, MethodName and the service
\* method its Handler calls
ServiceDesc(svc) ==
  [ServiceName |-> ProtoPackage \o "." \o svc,
   Methods |-> {[MethodName |-> m, Handler |-> m] : m \in {x \in Methods : ServiceOf(x) = svc}}]

Services == {"AccountService", "OrderService", "PaymentService", "ProductService"}

\* mutant: the Login handler reports and invokes Register
HandlerInfo_LoginAsRegister(h) ==
  IF h = "Login"
  THEN [invokes |-> "Register",
        FullMethod |-> "/go.escape.ship.proto.v1.AccountService/Register"]
  ELSE [invokes |-> h, FullMethod |-> "/" \o ProtoPackage \o "." \o ServiceOf(h) \o "/" \o h]

\* _AccountService_Xxx_Handler, named by the method of its table entry: the
\* server method it invokes and the FullMethod it puts in grpc.UnaryServerInfo
HandlerInfo(h) ==
  CASE h = "GetKakaoLoginURL" ->
         [invokes |-> "GetKakaoLoginURL",
          FullMethod |-> "/go.escape.ship.proto.v1.AccountService/GetKakaoLoginURL"]
    [] h = "GetKakaoCallBack" ->
         [invokes |-> "GetKakaoCallBack",
          FullMethod |-> "/go.escape.ship.proto.v1.AccountService/GetKakaoCallBack"]
    [] h = "Login" ->
         [invokes |-> "Login",
          FullMethod |-> "/go.escape.ship.proto.v1.AccountService/Login"]
    [] h = "Register" ->
         [invokes |-> "Register",
          FullMethod |-> "/go.escape.ship.proto.v1.AccountService/Register"]
    [] OTHER ->
         [invokes |-> h, FullMethod |-> "/" \o ProtoPackage \o "." \o ServiceOf(h) \o "/" \o h]

\* the handlers registered under a full method name
Dispatch(name) ==
  {e.Handler : e \in UNION {{d \in ServiceDesc(svc).Methods :
                               "/" \o ServiceDesc(svc).ServiceName \o "/" \o d.MethodName = name} :
                            svc \in Services}}

\* an installed interceptor either passes the call to the handler it is given
\* and returns that handler's result, or refuses the call itself
Interceptors == {"nil", "pass", "deny"}

\* an interceptor is the server owner's code: it may also call the handler it
\* is given more than once and return the last result
HandlerInterceptors == Interceptors \cup {"twice"}

\* mutant: with an interceptor installed the handler calls the service method
\* itself before it hands the call to the interceptor
Handler_CallsDirectlyToo(decErr, ic, svc) ==
  IF decErr # "nil"
    THEN [ret |-> Ret(NilResp, decErr), svcCalls |-> 0, icCalls |-> 0]
  ELSE IF ic = "nil"
    THEN [ret |-> svc, svcCalls |-> 1, icCalls |-> 0]
  ELSE IF ic = "pass"
    THEN [ret |-> svc, svcCalls |-> 2, icCalls |-> 1]
  ELSE IF ic = "twice"
    THEN [ret |-> svc, svcCalls |-> 3, icCalls |-> 1]
  ELSE [ret |-> Ret(NilResp, "permission_denied"), svcCalls |-> 1, icCalls |-> 1]

\* mutant: the handler goes on after dec(in) failed
Handler_IgnoresDecodeError(decErr, ic, svc) ==
  IF ic = "nil"
    THEN [ret |-> svc, svcCalls |-> 1, icCalls |-> 0]
  ELSE IF ic = "pass"
    THEN [ret |-> svc, svcCalls |-> 1, icCalls |-> 1]
  ELSE [ret |-> Ret(NilResp, "permission_denied"), svcCalls |-> 0, icCalls |-> 1]

\* _AccountService_Xxx_Handler: decErr is what dec(in) returned, svc what the
\* service method returns if it is called.  Gives the handler's return and
\* how often the service method and the interceptor were invoked.
Handler(decErr, ic, svc) ==
  IF decErr # "nil"
    THEN [ret |-> Ret(NilResp, decErr), svcCalls |-> 0, icCalls |-> 0]
  ELSE IF ic = "nil"
    THEN [ret |-> svc, svcCalls |-> 1, icCalls |-> 0]
  ELSE IF ic = "pass"
    THEN [ret |-> svc, svcCalls |-> 1, icCalls |-> 1]
  ELSE IF ic = "twice"
    THEN [ret |-> svc, svcCalls |-> 2, icCalls |-> 1]
  ELSE [ret |-> Ret(NilResp, "permission_denied"), svcCalls |-> 0, icCalls |-> 1]

\* the error kinds the decoder handed to a handler may report
DecodeErrKinds == {"internal", "invalid_argument"}

\* what an implemented service method may answer
CustomOutcomes(m) ==
  {Ret([type |-> m, val |-> v], "nil") : v \in RespVals} \cup {Ret(NilResp, k) : k \in Kinds}

\* the server implementations explored: the bare Unimplemented bases, the
\* example server (the Account methods overridden), everything overridden
ServerImpls == {{}, AccountMethods, Methods}

\* a failed call carries its status only
WireReply(ret) == IF ret.err # "nil" THEN Ret(NilResp, ret.err) ELSE ret

\* -------------------------------------------------- gateway: the proxy side
\* mutant: the proxied RPC runs on a context of its own
GatewayCtx_Detached(httpctx) == "none"

\* the context of the proxied RPC derives from the inbound request's
GatewayCtx(httpctx) == IF httpctx = "canceled" THEN "canceled" ELSE "none"

\* the HTTP request a caller builds for method m from the documented endpoint
EncodeHTTP(m, msg) ==
  LET e == DocEndpoints(m)
      bound == {VarField(e.path[i]) : i \in {j \in 1..Len(e.path) : IsVar(e.path[j])}}
      rest == {f \in DOMAIN msg : f \notin bound /\ msg[f] # DefaultOf(RequestFields(m)[f])}
  IN  [verb |-> e.verb,
       path |-> [i \in 1..Len(e.path) |->
                   IF IsVar(e.path[i]) THEN msg[VarField(e.path[i])] ELSE e.path[i]],
       body |-> [ok |-> TRUE, fields |-> [f \in rest |-> msg[f]]]]

\* the HTTP answer for the outcome of the proxied call
ForwardResponse(ret) == [status |-> HTTPStatusFromCode(ret.err), body |-> ret.resp]
NoHttpResp == [status |-> 0, body |-> NilResp]

\* ------------------------------------------------------------------- state
VARIABLES
  overridden,   \* the methods the registered server overrides
  interceptor,  \* the server's unary interceptor
  transport,    \* "none", "grpc", "http" or "raw"
  callM,        \* the method the caller means to call ("none": a raw HTTP request)
  callMsg,      \* the request message the caller built
  req,          \* the inbound HTTP request
  gpc,          \* gateway: "none", "received", "routed", "bound", "invoked", "responded"
  route,        \* gateway: the method the request resolved to
  gwIn,         \* gateway: the decoded input message
  httpCtx,      \* the inbound request's context: "live" or "canceled"
  httpResp,     \* the gateway's HTTP response
  cpc,          \* client stub: "idle", "waiting", "returned"
  rpcName,      \* the method name given to Invoke
  rpcIn,        \* the input message given to Invoke
  out,          \* the client method's output message
  cliRet,       \* what the client method returned
  ctxDone,      \* the caller's context: "none", "canceled", "deadline_exceeded"
  fault,        \* whether Invoke failed on the transport itself
  reqNet,       \* the request frame on the wire
  replyNet,     \* the reply on the wire
  srvM,         \* the service method that ran
  srvIn,        \* the message it was given
  srvCalls,     \* how often a service method was invoked for this call
  icCalls,      \* how often the interceptor was invoked for this call
  icInfo,       \* the info.FullMethod the interceptor was given ("": not invoked)
  decRet,       \* what dec(in) returned to the handler
  hdlRet        \* what the method handler returned

\* state of the other specifications: concurrent calls on one client, the
\* message codec, the gateway's request history, the connection helpers
VARIABLES
  calls,        \* concurrent calls: per call its position, request and result
  outs,         \* the output messages allocated by client methods
  codec,        \* a message value, its wire form and the value decoded from it
  prev,         \* the HTTP exchanges the gateway has finished, oldest first
  conns,        \* the connections dialled so far and whether each is open
  cset,         \* the client set a constructor returned, with its error
  flow,         \* the payment example: its position, requests and responses
  retry,        \* retryableCall: its position, loop counter, calls of fn and sleeps
  pool,         \* ConnectionPool: p.current, each GetClient's position, clients handed out
  example       \* ExampleKakaoPaymentFlow: its position, calls made and values kept

concVars == <<calls, outs>>
codecVars == <<codec>>
seqVars == <<prev>>
connVars == <<conns, cset>>
flowVars == <<flow>>
retryVars == <<retry>>
poolVars == <<pool>>
exampleVars == <<example>>
docVars == <<retryVars, poolVars, exampleVars>>
auxVars == <<concVars, codecVars, seqVars, connVars, flowVars, docVars>>

cfgVars == <<overridden, interceptor>>
callerVars == <<transport, callM, callMsg>>
gwVars == <<req, gpc, route, gwIn, httpCtx, httpResp>>
cliVars == <<cpc, rpcName, rpcIn, out, cliRet, ctxDone, fault>>
netVars == <<reqNet, replyNet>>
srvVars == <<srvM, srvIn, srvCalls, icCalls, icInfo, decRet, hdlRet>>
coreVars == <<cfgVars, callerVars, gwVars, cliVars, netVars, srvVars>>
vars == <<coreVars, auxVars>>

\* what the steps of each helper specification leave alone
exceptConc == <<coreVars, codecVars, seqVars, connVars, flowVars, docVars>>
exceptCodec == <<coreVars, concVars, seqVars, connVars, flowVars, docVars>>
exceptSeq == <<concVars, codecVars, connVars, flowVars, docVars>>
exceptConn == <<coreVars, concVars, codecVars, seqVars, flowVars, docVars>>
exceptFlow == <<coreVars, concVars, codecVars, seqVars, connVars, docVars>>
exceptRetry == <<coreVars, concVars, codecVars, seqVars, connVars, flowVars, poolVars, exampleVars>>
exceptPool == <<coreVars, concVars, codecVars, seqVars, connVars, flowVars, retryVars, exampleVars>>
exceptExample == <<coreVars, concVars, codecVars, seqVars, flowVars, retryVars, poolVars>>

NoFrame == [present |-> FALSE, name |-> "", ok |-> TRUE, msg |-> NoParams]
NoReply == [present |-> FALSE, ret |-> NoRet]
NoReq == [verb |-> "", path |-> <<>>, body |-> EmptyBody]

\* no call in progress
Quiet ==
  /\ transport = "none" /\ callM = "none" /\ callMsg = NoParams
  /\ req = NoReq /\ gpc = "none" /\ route = "none" /\ gwIn = NoParams
  /\ httpCtx = "live" /\ httpResp = NoHttpResp
  /\ cpc = "idle" /\ rpcName = "" /\ rpcIn = NoParams /\ out = NilResp
  /\ cliRet = NoRet /\ ctxDone = "none" /\ fault = FALSE
  /\ reqNet = NoFrame /\ replyNet = NoReply
  /\ srvM = "none" /\ srvIn = NoParams /\ srvCalls = 0 /\ icCalls = 0 /\ icInfo = ""
  /\ decRet = "none" /\ hdlRet = NoRet

\* the other specifications' state, at rest
NoCodec == [pc |-> "none"]
NoSet == [pc |-> "none"]
NoFlow == [pc |-> "none"]
NoRetry == [pc |-> "none"]
NoPool == [pc |-> "none"]
NoExample == [pc |-> "none"]
DocQuiet == retry = NoRetry /\ pool = NoPool /\ example = NoExample
AuxQuiet ==
  /\ calls = <<>> /\ outs = <<>>
  /\ codec = NoCodec
  /\ prev = <<>>
  /\ conns = <<>> /\ cset = NoSet
  /\ flow = NoFlow
  /\ DocQuiet

Init ==
  /\ overridden \in ServerImpls
  /\ interceptor \in Interceptors
  /\ Quiet
  /\ AuxQuiet

\* the context of the RPC in progress, as Invoke sees it
RpcCtx == ClientCtx(IF transport = "http" THEN GatewayCtx(httpCtx) ELSE ctxDone)

\* a client method of the stub is entered: it allocates out and calls Invoke,
\* which puts the encoded request on the wire unless the context is done
StubEnter(m, msg) ==
  /\ cpc' = "waiting"
  /\ rpcName' = FullMethodName(m)
  /\ rpcIn' = msg
  /\ out' = NewResp(m)
  /\ reqNet' = IF RpcCtx = "none"
                 THEN [present |-> TRUE, name |-> FullMethodName(m), ok |-> TRUE, msg |-> msg]
                 ELSE NoFrame
  /\ UNCHANGED <<cliRet, ctxDone, fault, replyNet>>

\* ------------------------------------------------------------ caller actions
CallGrpc ==
  /\ transport = "none"
  /\ \E m \in Methods : \E msg \in Msgs(m) :
       /\ transport' = "grpc" /\ callM' = m /\ callMsg' = msg
       /\ StubEnter(m, msg)
  /\ UNCHANGED <<auxVars, cfgVars, gwVars, srvVars>>

\* a peer that sends a frame whose payload does not decode
SendMalformed ==
  /\ transport = "none"
  /\ \E m \in Methods :
       /\ transport' = "raw" /\ callM' = m /\ callMsg' = ZeroMsg(m)
       /\ cpc' = "waiting" /\ rpcName' = FullMethodName(m) /\ rpcIn' = ZeroMsg(m)
       /\ out' = NewResp(m)
       /\ reqNet' = [present |-> TRUE, name |-> FullMethodName(m), ok |-> FALSE, msg |-> NoParams]
  /\ UNCHANGED <<auxVars, cfgVars, gwVars, srvVars, cliRet, ctxDone, fault, replyNet>>

CallHttp ==
  /\ transport = "none"
  /\ \E m \in Methods : \E msg \in Msgs(m) : \E wellFormed \in BOOLEAN :
       /\ wellFormed \/ RuleOf(m).body = "*"
       /\ transport' = "http" /\ callM' = m /\ callMsg' = msg
       /\ req' = IF wellFormed THEN EncodeHTTP(m, msg)
                 ELSE [EncodeHTTP(m, msg) EXCEPT !.body = MalformedBody]
       /\ gpc' = "received"
  /\ UNCHANGED <<auxVars, cfgVars, route, gwIn, httpCtx, httpResp, cliVars, netVars, srvVars>>

\* the caller's cancellation or deadline fires while its call is in flight
CtxFire ==
  /\ transport \in {"grpc", "raw"}
  /\ cpc = "waiting"
  /\ ctxDone = "none"
  /\ \E k \in CtxKinds : ctxDone' = k
  /\ UNCHANGED <<auxVars, cfgVars, callerVars, gwVars, cpc, rpcName, rpcIn, out, cliRet, fault,
                 netVars, srvVars>>

\* the HTTP client goes away before the gateway has answered
HttpCancel ==
  /\ transport = "http"
  /\ gpc \in {"received", "routed", "bound", "invoked"}
  /\ httpCtx = "live"
  /\ httpCtx' = "canceled"
  /\ UNCHANGED <<auxVars, cfgVars, callerVars, req, gpc, route, gwIn, httpResp, cliVars, netVars,
                 srvVars>>

\* ----------------------------------------------------------- gateway actions
GwMatch ==
  /\ gpc = "received"
  /\ LET ms == MatchRoute(req.verb, req.path)
     IN  IF ms = {}
           THEN /\ gpc' = "responded"
                /\ httpResp' = [status |-> 404, body |-> NilResp]
                /\ route' = route
           ELSE /\ \E b \in ms : route' = b.method
                /\ gpc' = "routed"
                /\ httpResp' = httpResp
  /\ UNCHANGED <<auxVars, cfgVars, callerVars, req, gwIn, httpCtx, cliVars, netVars, srvVars>>

GwBind ==
  /\ gpc = "routed"
  /\ LET b == RuleOf(route)
         p == PathParams(b.path, req.path)
     IN  \E strict \in BOOLEAN :
           IF BindOK(b, p, req.body, strict)
             THEN /\ gwIn' = BindRequest(b, p, req.body)
                  /\ gpc' = "bound"
                  /\ httpResp' = httpResp
             ELSE /\ gwIn' = gwIn
                  /\ gpc' = "responded"
                  /\ httpResp' = ForwardResponse(Ret(NilResp, "invalid_argument"))
  /\ UNCHANGED <<auxVars, cfgVars, callerVars, req, route, httpCtx, cliVars, netVars, srvVars>>

GwInvoke ==
  /\ gpc = "bound"
  /\ gpc' = "invoked"
  /\ StubEnter(route, gwIn)
  /\ UNCHANGED <<auxVars, cfgVars, callerVars, req, route, gwIn, httpCtx, httpResp, srvVars>>

GwRespond ==
  /\ gpc = "invoked"
  /\ cpc = "returned"
  /\ gpc' = "responded"
  /\ httpResp' = ForwardResponse(cliRet)
  /\ UNCHANGED <<auxVars, cfgVars, callerVars, req, route, gwIn, httpCtx, cliVars, netVars, srvVars>>

\* ------------------------------------------------------------ server actions
ServerHandle ==
  /\ reqNet.present
  /\ reqNet' = NoFrame
  /\ LET hs == Dispatch(reqNet.name)
     IN  IF hs = {}
           THEN /\ replyNet' = [present |-> TRUE, ret |-> Ret(NilResp, "unimplemented")]
                /\ UNCHANGED srvVars
           ELSE \E m \in hs : \E dk \in DecodeErrKinds : \E custom \in CustomOutcomes(m) :
                  LET decErr == IF reqNet.ok THEN "nil" ELSE dk
                      svc == IF m \in overridden THEN custom ELSE Unimplemented(m)
                      h == Handler(decErr, interceptor, svc)
                  IN  /\ hdlRet' = h.ret
                      /\ decRet' = decErr
                      /\ srvCalls' = srvCalls + h.svcCalls
                      /\ icCalls' = icCalls + h.icCalls
                      /\ icInfo' = IF h.icCalls > 0 THEN HandlerInfo(m).FullMethod ELSE icInfo
                      /\ srvM' = IF h.svcCalls > 0 THEN HandlerInfo(m).invokes ELSE srvM
                      /\ srvIn' = IF h.svcCalls > 0 THEN reqNet.msg ELSE srvIn
                      /\ replyNet' = [present |-> TRUE, ret |-> WireReply(h.ret)]
  /\ UNCHANGED <<auxVars, cfgVars, callerVars, gwVars, cliVars>>

\* ------------------------------------------------------------ client actions
\* the reply reaches Invoke while the context is live
ClientReceive ==
  /\ cpc = "waiting"
  /\ replyNet.present
  /\ RpcCtx = "none"
  /\ LET filled == IF replyNet.ret.err = "nil" THEN replyNet.ret.resp ELSE out
     IN  /\ out' = filled
         /\ cliRet' = ClientReturn(filled, replyNet.ret.err)
  /\ cpc' = "returned"
  /\ replyNet' = NoReply
  /\ UNCHANGED <<auxVars, cfgVars, callerVars, gwVars, rpcName, rpcIn, ctxDone, fault, reqNet, srvVars>>

\* Invoke fails on the transport: the connection is lost, or the reply does
\* not decode after out was partly filled
InvokeFault ==
  /\ cpc = "waiting"
  /\ RpcCtx = "none"
  /\ \/ /\ out' = out
        /\ cliRet' = ClientReturn(out, "unavailable")
        /\ replyNet' = replyNet
     \/ /\ replyNet.present /\ replyNet.ret.err = "nil"
        /\ out' = [out EXCEPT !.val = "partial"]
        /\ cliRet' = ClientReturn(out', "internal")
        /\ replyNet' = NoReply
  /\ fault' = TRUE
  /\ cpc' = "returned"
  /\ UNCHANGED <<auxVars, cfgVars, callerVars, gwVars, rpcName, rpcIn, ctxDone, reqNet, srvVars>>

\* the context is done before a reply arrived: Invoke gives up
ClientAbort ==
  /\ cpc = "waiting"
  /\ RpcCtx # "none"
  /\ cliRet' = ClientReturn(out, RpcCtx)
  /\ cpc' = "returned"
  /\ UNCHANGED <<auxVars, cfgVars, callerVars, gwVars, rpcName, rpcIn, out, ctxDone, fault, netVars,
                 srvVars>>

\* a reply for a call that has already returned is dropped
DropLate ==
  /\ cpc = "returned"
  /\ replyNet.present
  /\ replyNet' = NoReply
  /\ UNCHANGED <<auxVars, cfgVars, callerVars, gwVars, cliVars, reqNet, srvVars>>

\* the call is over; the next one starts from scratch
Finish ==
  /\ \/ transport \in {"grpc", "raw"} /\ cpc = "returned"
     \/ transport = "http" /\ gpc = "responded"
  /\ transport' = "none" /\ callM' = "none" /\ callMsg' = NoParams
  /\ req' = NoReq /\ gpc' = "none" /\ route' = "none" /\ gwIn' = NoParams
  /\ httpCtx' = "live" /\ httpResp' = NoHttpResp
  /\ cpc' = "idle" /\ rpcName' = "" /\ rpcIn' = NoParams /\ out' = NilResp
  /\ cliRet' = NoRet /\ ctxDone' = "none" /\ fault' = FALSE
  /\ reqNet' = NoFrame /\ replyNet' = NoReply
  /\ srvM' = "none" /\ srvIn' = NoParams /\ srvCalls' = 0 /\ icCalls' = 0 /\ icInfo' = ""
  /\ decRet' = "none" /\ hdlRet' = NoRet
  /\ UNCHANGED <<auxVars, cfgVars>>

Next ==
  \/ CallGrpc \/ SendMalformed \/ CallHttp \/ CtxFire \/ HttpCancel
  \/ GwMatch \/ GwBind \/ GwInvoke \/ GwRespond
  \/ ServerHandle
  \/ ClientReceive \/ InvokeFault \/ ClientAbort \/ DropLate
  \/ Finish

Spec == Init /\ [][Next]_vars

\* ---------------------------------------------- raw HTTP requests (SpecRoute)
PathSegs == {"products", "product", "options", "prod001", ""}
Verbs == {"GET", "POST"}

\* the documented paths, with "prod001" for the path parameter
CatalogPaths ==
  {[i \in 1..Len(b.path) |-> IF IsVar(b.path[i]) THEN "prod001" ELSE b.path[i]] : b \in HttpRules}

RawPaths == CatalogPaths \cup UNION {[1..n -> PathSegs] : n \in 0..MaxPathLen}

\* member names of the bodies sent to a path: those of the messages its
\* templates name, and one no message has
BodyNamesFor(path) ==
  {"bogus"} \cup UNION {DOMAIN RequestFields(b.method) : b \in {r \in HttpRules : PathMatches(r.path, path)}}

RawBodies(path) ==
  {MalformedBody} \cup
  {[ok |-> TRUE, fields |-> o] :
     o \in UNION {[D -> Vals] : D \in KSubsets(BodyNamesFor(path), MaxBodyFields)}}

InitRoute ==
  /\ overridden = Methods
  /\ interceptor = "nil"
  /\ transport = "http" /\ callM = "none" /\ callMsg = NoParams
  /\ \E v \in Verbs : \E p \in RawPaths : \E b \in RawBodies(p) :
       req = [verb |-> v, path |-> p, body |-> b]
  /\ gpc = "received" /\ route = "none" /\ gwIn = NoParams
  /\ httpCtx = "live" /\ httpResp = NoHttpResp
  /\ cpc = "idle" /\ rpcName = "" /\ rpcIn = NoParams /\ out = NilResp
  /\ cliRet = NoRet /\ ctxDone = "none" /\ fault = FALSE
  /\ reqNet = NoFrame /\ replyNet = NoReply
  /\ srvM = "none" /\ srvIn = NoParams /\ srvCalls = 0 /\ icCalls = 0 /\ icInfo = ""
  /\ decRet = "none" /\ hdlRet = NoRet
  /\ AuxQuiet

NextRoute == GwMatch \/ GwBind \/ GwInvoke

SpecRoute == InitRoute /\ [][NextRoute]_vars


\* ------------------------------------------------ the message declarations
\* a singular and a repeated field: name, declared type, field number
F(name, type, num) == [name |-> name, type |-> type, num |-> num, rep |-> FALSE]
R(name, type, num) == [name |-> name, type |-> type, num |-> num, rep |-> TRUE]

\* account.proto
AccountMessages ==
  [ GetKakaoLoginURLRequest |->
      <<>>,
    GetKakaoLoginURLResponse |->
      <<F("login_url", "string", 1)>>,
    GetKakaoCallBackRequest |->
      <<F("code", "string", 1)>>,
    GetKakaoCallBackResponse |->
      <<F("access_token", "string", 1),
        F("refresh_token", "string", 2),
        F("user_info_json", "string", 3)>>,
    LoginRequest |->
      <<F("email", "string", 1), F("password", "string", 2)>>,
    LoginResponse |->
      <<F("access_token", "string", 1), F("refresh_token", "string", 2)>>,
    RegisterRequest |->
      <<F("email", "string", 1), F("password", "string", 2)>>,
    RegisterResponse |->
      <<F("message", "string", 1)>> ]

\* mutant: InsertOrderRequest.items takes the number of memo
OrderMessages_ItemsNumber10 ==
  [ Order |->
      <<F("id", "string", 1),
        F("user_id", "string", 2),
        F("order_number", "string", 3),
        F("status", "string", 4),
        F("total_price", "int64", 5),
        F("quantity", "int32", 6),
        F("payment_method", "string", 7),
        F("shipping_fee", "int32", 8),
        F("shipping_address", "string", 9),
        F("ordered_at", "string", 10),
        F("paid_at", "string", 11),
        F("memo", "string", 12),
        R("items", "OrderItem", 13)>>,
    OrderItem |->
      <<F("id", "string", 1),
        F("order_id", "string", 2),
        F("product_id", "string", 3),
        F("product_name", "string", 4),
        F("product_price", "int64", 5),
        F("quantity", "int32", 6)>>,
    InsertOrderRequest |->
      <<F("user_id", "string", 1),
        F("order_number", "string", 2),
        F("status", "string", 3),
        F("total_price", "int64", 4),
        F("quantity", "int32", 5),
        F("payment_method", "string", 6),
        F("shipping_fee", "int32", 7),
        F("shipping_address", "string", 8),
        F("paid_at", "string", 9),
        F("memo", "string", 10),
        R("items", "InsertOrderItem", 10)>>,
    InsertOrderItem |->
      <<F("product_id", "string", 1),
        F("product_name", "string", 2),
        F("product_options", "string", 3),
        F("product_price", "int64", 4),
        F("quantity", "int32", 5)>>,
    InsertOrderResponse |->
      <<F("id", "string", 1)>>,
    GetAllOrdersRequest |->
      <<>>,
    GetAllOrdersResponse |->
      <<R("orders", "Order", 1)>> ]

\* order.proto
OrderMessages ==
  [ Order |->
      <<F("id", "string", 1),
        F("user_id", "string", 2),
        F("order_number", "string", 3),
        F("status", "string", 4),
        F("total_price", "int64", 5),
        F("quantity", "int32", 6),
        F("payment_method", "string", 7),
        F("shipping_fee", "int32", 8),
        F("shipping_address", "string", 9),
        F("ordered_at", "string", 10),
        F("paid_at", "string", 11),
        F("memo", "string", 12),
        R("items", "OrderItem", 13)>>,
    OrderItem |->
      <<F("id", "string", 1),
        F("order_id", "string", 2),
        F("product_id", "string", 3),
        F("product_name", "string", 4),
        F("product_price", "int64", 5),
        F("quantity", "int32", 6)>>,
    InsertOrderRequest |->
      <<F("user_id", "string", 1),
        F("order_number", "string", 2),
        F("status", "string", 3),
        F("total_price", "int64", 4),
        F("quantity", "int32", 5),
        F("payment_method", "string", 6),
        F("shipping_fee", "int32", 7),
        F("shipping_address", "string", 8),
        F("paid_at", "string", 9),
        F("memo", "string", 10),
        R("items", "InsertOrderItem", 12)>>,
    InsertOrderItem |->
      <<F("product_id", "string", 1),
        F("product_name", "string", 2),
        F("product_options", "string", 3),
        F("product_price", "int64", 4),
        F("quantity", "int32", 5)>>,
    InsertOrderResponse |->
      <<F("id", "string", 1)>>,
    GetAllOrdersRequest |->
      <<>>,
    GetAllOrdersResponse |->
      <<R("orders", "Order", 1)>> ]

\* payment.proto
PaymentMessages ==
  [ KakaoReadyRequest |->
      <<F("partner_order_id", "string", 1),
        F("partner_user_id", "string", 2),
        F("item_name", "string", 3),
        F("quantity", "int32", 4),
        F("total_amount", "int64", 5),
        F("tax_free_amount", "int64", 6)>>,
    KakaoReadyResponse |->
      <<F("tid", "string", 1),
        F("next_redirect_app_url", "string", 2),
        F("next_redirect_mobile_url", "string", 3),
        F("next_redirect_pc_url", "string", 4),
        F("android_app_scheme", "string", 5),
        F("ios_app_scheme", "string", 6)>>,
    KakaoApproveRequest |->
      <<F("tid", "string", 1),
        F("partner_order_id", "string", 2),
        F("partner_user_id", "string", 3),
        F("pg_token", "string", 4)>>,
    KakaoApproveResponse |->
      <<F("partner_order_id", "string", 1)>>,
    KakaoCancelRequest |->
      <<F("partner_order_id", "string", 1),
        F("cancel_amount", "string", 2),
        F("cancel_tax_free_amount", "int64", 3),
        F("cancel_vat_amount", "int64", 4),
        F("cancel_available_amount", "int64", 5)>>,
    KakaoCancelResponse |->
      <<F("partner_order_id", "string", 1)>> ]

\* mutant: GetProductByIDResponse.product is declared with order.proto's Order
ProductMessages_BorrowsOrder ==
  [ Category |->
      <<F("id", "int64", 1), F("name", "string", 2)>>,
    Product |->
      <<F("id", "string", 1),
        F("name", "string", 2),
        R("categories", "Category", 3),
        F("price", "int64", 4),
        F("image_url", "string", 5),
        F("created_at", "string", 6),
        F("updated_at", "string", 7)>>,
    GetProductsRequest |->
      <<>>,
    GetProductsResponse |->
      <<R("products", "Product", 1)>>,
    GetProductByIDRequest |->
      <<F("id", "string", 1)>>,
    GetProductByIDResponse |->
      <<F("product", "Order", 1)>>,
    PostProductsRequest |->
      <<F("name", "string", 1),
        R("categories", "string", 2),
        F("price", "int64", 3),
        F("image_url", "string", 4)>>,
    PostProductsResponse |->
      <<F("message", "string", 1)>>,
    GetProductOptionsRequest |->
      <<F("id", "string", 1)>>,
    OptionValue |->
      <<F("value_id", "int32", 1), F("value", "string", 2)>>,
    ProductOption |->
      <<F("option_id", "int32", 1),
        F("option_name", "string", 2),
        R("values", "OptionValue", 3)>>,
    GetProductOptionsResponse |->
      <<F("product_id", "string", 1), R("options", "ProductOption", 2)>> ]

\* mutant: Product.price is declared int32
ProductMessages_PriceInt32 ==
  [ Category |->
      <<F("id", "int64", 1), F("name", "string", 2)>>,
    Product |->
      <<F("id", "string", 1),
        F("name", "string", 2),
        R("categories", "Category", 3),
        F("price", "int32", 4),
        F("image_url", "string", 5),
        F("created_at", "string", 6),
        F("updated_at", "string", 7)>>,
    GetProductsRequest |->
      <<>>,
    GetProductsResponse |->
      <<R("products", "Product", 1)>>,
    GetProductByIDRequest |->
      <<F("id", "string", 1)>>,
    GetProductByIDResponse |->
      <<F("product", "Product", 1)>>,
    PostProductsRequest |->
      <<F("name", "string", 1),
        R("categories", "string", 2),
        F("price", "int64", 3),
        F("image_url", "string", 4)>>,
    PostProductsResponse |->
      <<F("message", "string", 1)>>,
    GetProductOptionsRequest |->
      <<F("id", "string", 1)>>,
    OptionValue |->
      <<F("value_id", "int32", 1), F("value", "string", 2)>>,
    ProductOption |->
      <<F("option_id", "int32", 1),
        F("option_name", "string", 2),
        R("values", "OptionValue", 3)>>,
    GetProductOptionsResponse |->
      <<F("product_id", "string", 1), R("options", "ProductOption", 2)>> ]

\* product.proto
ProductMessages ==
  [ Category |->
      <<F("id", "int64", 1), F("name", "string", 2)>>,
    Product |->
      <<F("id", "string", 1),
        F("name", "string", 2),
        R("categories", "Category", 3),
        F("price", "int64", 4),
        F("image_url", "string", 5),
        F("created_at", "string", 6),
        F("updated_at", "string", 7)>>,
    GetProductsRequest |->
      <<>>,
    GetProductsResponse |->
      <<R("products", "Product", 1)>>,
    GetProductByIDRequest |->
      <<F("id", "string", 1)>>,
    GetProductByIDResponse |->
      <<F("product", "Product", 1)>>,
    PostProductsRequest |->
      <<F("name", "string", 1),
        R("categories", "string", 2),
        F("price", "int64", 3),
        F("image_url", "string", 4)>>,
    PostProductsResponse |->
      <<F("message", "string", 1)>>,
    GetProductOptionsRequest |->
      <<F("id", "string", 1)>>,
    OptionValue |->
      <<F("value_id", "int32", 1), F("value", "string", 2)>>,
    ProductOption |->
      <<F("option_id", "int32", 1),
        F("option_name", "string", 2),
        R("values", "OptionValue", 3)>>,
    GetProductOptionsResponse |->
      <<F("product_id", "string", 1), R("options", "ProductOption", 2)>> ]

SchemaNames == {"account", "order", "payment", "product"}

\* the messages each of the four files declares
SchemaMessages(sch) ==
  CASE sch = "account" -> AccountMessages
    [] sch = "order" -> OrderMessages
    [] sch = "payment" -> PaymentMessages
    [] sch = "product" -> ProductMessages

MessageNames == UNION {DOMAIN SchemaMessages(sch) : sch \in SchemaNames}

\* the declaration a message name resolves to within the package
FieldsOf(T) == SchemaMessages(CHOOSE sch \in SchemaNames : T \in DOMAIN SchemaMessages(sch))[T]

ScalarTypes == {"string", "int32", "int64"}

\* ------------------------------------------ message values and their codec
\* most elements of a repeated field
MaxRepeat == 2

\* field values carry their kind: a string, an integer, a list (repeated
\* field), a message, or no message (a message field that is not set)
Str(x) == [k |-> "str", v |-> x]
Num(n) == [k |-> "int", v |-> n]
List(q) == [k |-> "list", v |-> q]
Msg(fields) == [k |-> "msg", v |-> fields]
NilMsg == [k |-> "nil", v |-> ""]
Garbage == [k |-> "garbage", v |-> ""]

IsScalar(f) == f.type \in ScalarTypes
FieldSet(T) == {FieldsOf(T)[i] : i \in 1..Len(FieldsOf(T))}
FieldNames(T) == {f.name : f \in FieldSet(T)}
FieldNamed(T, n) == CHOOSE f \in FieldSet(T) : f.name = n

\* proto3 default of a field
Default(f) ==
  IF f.rep THEN List(<<>>)
  ELSE IF f.type = "string" THEN Str("")
  ELSE IF f.type \in {"int32", "int64"} THEN Num(0)
  ELSE NilMsg

Zero(T) == [n \in FieldNames(T) |-> Default(FieldNamed(T, n))]

IntSamples == {1, 2, 25000}

\* values given to a scalar field or element
ScalarSamples(type) ==
  CASE type = "string" -> {Str("prod001"), Str("Case")}
    [] type = "int32" -> {Num(1), Num(2)}
    [] type = "int64" -> {Num(25000), Num(1)}

\* the value a scalar field of a nested message is given
ScalarPick(type) ==
  CASE type = "string" -> Str("prod001")
    [] type = "int32" -> Num(1)
    [] type = "int64" -> Num(25000)

\* nested message values: at most one scalar field set
Leaf(T) ==
  {Msg(Zero(T))} \cup
  {Msg([Zero(T) EXCEPT ![f.name] = ScalarPick(f.type)]) :
     f \in {g \in FieldSet(T) : IsScalar(g) /\ ~g.rep}}

ElemSamples(f) == IF IsScalar(f) THEN ScalarSamples(f.type) ELSE Leaf(f.type)

FieldSamples(f) ==
  IF f.rep
    THEN {List(q) : q \in UNION {[1..n -> ElemSamples(f)] : n \in 1..MaxRepeat}}
    ELSE ElemSamples(f)

\* the message values explored: the zero value and every value with one
\* field set
Values(T) ==
  {Msg(Zero(T))} \cup
  UNION {{Msg([Zero(T) EXCEPT ![f.name] = x]) : x \in FieldSamples(f)} : f \in FieldSet(T)}

RECURSIVE Flatten(_)
Flatten(qs) == IF qs = <<>> THEN <<>> ELSE Head(qs) \o Flatten(Tail(qs))

\* binary form: the set fields in declaration order as (field number,
\* payload) entries, one entry per element of a repeated field, a nested
\* message as its own entries; a field at its default is left out
RECURSIVE EncodeBinary(_, _)
Payload(f, e) ==
  IF IsScalar(f) THEN e ELSE [k |-> "sub", v |-> EncodeBinary(f.type, e.v)]

EncodeField(f, x) ==
  IF x = Default(f) THEN <<>>
  ELSE IF f.rep THEN [j \in 1..Len(x.v) |-> [num |-> f.num, pay |-> Payload(f, x.v[j])]]
  ELSE << [num |-> f.num, pay |-> Payload(f, x)] >>

EncodeBinary(T, fields) ==
  Flatten([i \in 1..Len(FieldsOf(T)) |-> EncodeField(FieldsOf(T)[i], fields[FieldsOf(T)[i].name])])

KindOf(type) == IF type = "string" THEN "str" ELSE "int"

\* a field takes the entries that carry its number: all of them in order if
\* repeated, else the last; entries of no field are skipped
RECURSIVE DecodeBinary(_, _)
Unpay(f, p) ==
  IF IsScalar(f) THEN (IF p.k = KindOf(f.type) THEN p ELSE Garbage)
  ELSE IF p.k = "sub" THEN DecodeBinary(f.type, p.v)
  ELSE Garbage

DecodeField(f, es) ==
  IF f.rep THEN List([j \in 1..Len(es) |-> Unpay(f, es[j].pay)])
  ELSE IF Len(es) = 0 THEN Default(f)
  ELSE Unpay(f, es[Len(es)].pay)

DecodeBinary(T, wire) ==
  Msg([n \in FieldNames(T) |->
         DecodeField(FieldNamed(T, n), SelectSeq(wire, LAMBDA e : e.num = FieldNamed(T, n).num))])

\* JSON form: an object keyed by field name; a string as a JSON string, an
\* int32 as a JSON number, an int64 as a JSON string of its decimal digits,
\* a repeated field as an array, a message as an object
RECURSIVE EncodeJSON(_, _)
JsonElem(f, e) ==
  IF f.type = "string" THEN [k |-> "jstr", v |-> e.v]
  ELSE IF f.type = "int32" THEN [k |-> "jnum", v |-> e.v]
  ELSE IF f.type = "int64" THEN [k |-> "jstr", v |-> ToString(e.v)]
  ELSE [k |-> "obj", v |-> EncodeJSON(f.type, e.v)]

JsonOf(f, x) ==
  IF f.rep THEN [k |-> "arr", v |-> [j \in 1..Len(x.v) |-> JsonElem(f, x.v[j])]]
  ELSE JsonElem(f, x)

EncodeJSON(T, fields) ==
  [n \in {m \in FieldNames(T) : fields[m] # Default(FieldNamed(T, m))} |->
     JsonOf(FieldNamed(T, n), fields[n])]

ParseInt(str) ==
  IF \E n \in IntSamples \cup {0} : ToString(n) = str
    THEN Num(CHOOSE n \in IntSamples \cup {0} : ToString(n) = str)
    ELSE Garbage

RECURSIVE DecodeJSON(_, _)
FromJsonElem(f, j) ==
  IF f.type = "string" THEN (IF j.k = "jstr" THEN Str(j.v) ELSE Garbage)
  ELSE IF f.type = "int32" THEN (IF j.k = "jnum" THEN Num(j.v) ELSE Garbage)
  ELSE IF f.type = "int64"
    THEN (IF j.k = "jstr" THEN ParseInt(j.v) ELSE IF j.k = "jnum" THEN Num(j.v) ELSE Garbage)
  ELSE IF j.k = "obj" THEN DecodeJSON(f.type, j.v)
  ELSE Garbage

FromJson(f, j) ==
  IF ~f.rep THEN FromJsonElem(f, j)
  ELSE IF j.k = "arr" THEN List([i \in 1..Len(j.v) |-> FromJsonElem(f, j.v[i])])
  ELSE Garbage

DecodeJSON(T, obj) ==
  Msg([n \in FieldNames(T) |->
         IF n \in DOMAIN obj THEN FromJson(FieldNamed(T, n), obj[n])
         ELSE Default(FieldNamed(T, n))])

WireForms == {"binary", "json"}

Encode(form, T, fields) ==
  IF form = "binary" THEN EncodeBinary(T, fields) ELSE EncodeJSON(T, fields)

Decode(form, T, wire) ==
  IF form = "binary" THEN DecodeBinary(T, wire) ELSE DecodeJSON(T, wire)

\* ------------------------------------------------ the round trip (SpecCodec)
InitCodec ==
  /\ overridden = Methods /\ interceptor = "nil"
  /\ Quiet
  /\ DocQuiet
  /\ calls = <<>> /\ outs = <<>> /\ prev = <<>> /\ conns = <<>> /\ cset = NoSet /\ flow = NoFlow
  /\ \E T \in MessageNames : \E val \in Values(T) : \E form \in WireForms :
       codec = [pc |-> "built", type |-> T, val |-> val, form |-> form,
                wire |-> <<>>, back |-> NilMsg]

CodecEncode ==
  /\ codec.pc = "built"
  /\ codec' = [codec EXCEPT !.pc = "encoded",
                            !.wire = Encode(codec.form, codec.type, codec.val.v)]
  /\ UNCHANGED exceptCodec

CodecDecode ==
  /\ codec.pc = "encoded"
  /\ codec' = [codec EXCEPT !.pc = "decoded",
                            !.back = Decode(codec.form, codec.type, codec.wire)]
  /\ UNCHANGED exceptCodec

NextCodec == CodecEncode \/ CodecDecode

SpecCodec == InitCodec /\ [][NextCodec]_vars

\* ------------------------------------------ the payment example (SpecPay)
\* ExamplePaymentServiceClient: KakaoReady, then KakaoApprove, then
\* KakaoCancel, stopping at the first call that fails
FlowOrderIds == {"ORDER123", "ORDER124"}
FlowAmounts == {25000, 1}
\* what the payment service may issue
Tids == {"T1", "T2", ""}
RedirectUrls == {"https://pc", ""}

ReadyRequest(order, amount) ==
  Msg([Zero("KakaoReadyRequest") EXCEPT
         !.partner_order_id = Str(order), !.partner_user_id = Str("USER123"),
         !.item_name = Str("Case"), !.quantity = Num(1),
         !.total_amount = Num(amount), !.tax_free_amount = Num(0)])

\* mutant: the approve request is built without the response of KakaoReady
ApproveRequest_OwnTid(order, readyResp) ==
  Msg([Zero("KakaoApproveRequest") EXCEPT
         !.tid = Str(order), !.partner_order_id = Str(order),
         !.partner_user_id = Str("USER123"), !.pg_token = Str("payment_token_from_kakao")])

ApproveRequest(order, readyResp) ==
  Msg([Zero("KakaoApproveRequest") EXCEPT
         !.tid = readyResp.v.tid, !.partner_order_id = Str(order),
         !.partner_user_id = Str("USER123"), !.pg_token = Str("payment_token_from_kakao")])

CancelRequest(order, amount) ==
  Msg([Zero("KakaoCancelRequest") EXCEPT
         !.partner_order_id = Str(order), !.cancel_amount = Str(ToString(amount)),
         !.cancel_tax_free_amount = Num(0), !.cancel_vat_amount = Num(0),
         !.cancel_available_amount = Num(amount)])

InitPay ==
  /\ overridden = Methods /\ interceptor = "nil"
  /\ Quiet
  /\ DocQuiet
  /\ calls = <<>> /\ outs = <<>> /\ codec = NoCodec /\ prev = <<>>
  /\ conns = <<>> /\ cset = NoSet
  /\ \E order \in FlowOrderIds : \E amount \in FlowAmounts :
       flow = [pc |-> "start", order |-> order, amount |-> amount,
               readyReq |-> NilMsg, readyResp |-> NilMsg,
               approveReq |-> NilMsg, cancelReq |-> NilMsg]

PayReady ==
  /\ flow.pc = "start"
  /\ flow' = [flow EXCEPT !.pc = "ready_sent",
                          !.readyReq = ReadyRequest(flow.order, flow.amount)]
  /\ UNCHANGED exceptFlow

PayReadyReply ==
  /\ flow.pc = "ready_sent"
  /\ \/ \E tid \in Tids : \E url \in RedirectUrls :
          flow' = [flow EXCEPT !.pc = "ready_done",
                     !.readyResp = Msg([Zero("KakaoReadyResponse") EXCEPT
                                          !.tid = Str(tid), !.next_redirect_pc_url = Str(url)])]
     \/ flow' = [flow EXCEPT !.pc = "failed"]
  /\ UNCHANGED exceptFlow

PayApprove ==
  /\ flow.pc = "ready_done"
  /\ flow' = [flow EXCEPT !.pc = "approve_sent",
                          !.approveReq = ApproveRequest(flow.order, flow.readyResp)]
  /\ UNCHANGED exceptFlow

PayApproveReply ==
  /\ flow.pc = "approve_sent"
  /\ \E next \in {"approve_done", "failed"} : flow' = [flow EXCEPT !.pc = next]
  /\ UNCHANGED exceptFlow

PayCancel ==
  /\ flow.pc = "approve_done"
  /\ flow' = [flow EXCEPT !.pc = "cancel_sent",
                          !.cancelReq = CancelRequest(flow.order, flow.amount)]
  /\ UNCHANGED exceptFlow

PayCancelReply ==
  /\ flow.pc = "cancel_sent"
  /\ \E next \in {"done", "failed"} : flow' = [flow EXCEPT !.pc = next]
  /\ UNCHANGED exceptFlow

NextPay ==
  PayReady \/ PayReadyReply \/ PayApprove \/ PayApproveReply \/ PayCancel \/ PayCancelReply

SpecPay == InitPay /\ [][NextPay]_vars

\* ------------------------- the gateway over typed messages (SpecGateway)
\* HTTP exchanges the gateway has finished before the one in progress
MaxHistory == 1

\* rpc X(XRequest) returns (XResponse)
RequestType(m) == m \o "Request"
ResponseType(m) == m \o "Response"

\* an InsertOrderRequest of the order example, for a given user
InsertOrderSample(user, price) ==
  [Zero("InsertOrderRequest") EXCEPT
     !.user_id = Str(user), !.order_number = Str("ORD-2024-001"),
     !.total_price = Num(price), !.quantity = Num(2)]

JsonBody(T, fields) == [ok |-> TRUE, fields |-> EncodeJSON(T, fields)]

\* the HTTP requests sent to the gateway
GwRequests ==
  { [verb |-> "GET", path |-> <<"products", "prod001">>, body |-> EmptyBody],
    [verb |-> "POST", path |-> <<"v1", "order", "insert">>,
     body |-> JsonBody("InsertOrderRequest", InsertOrderSample("", 25000))],
    [verb |-> "POST", path |-> <<"v1", "order", "insert">>,
     body |-> JsonBody("InsertOrderRequest", InsertOrderSample("USER123", 25000))],
    [verb |-> "POST", path |-> <<"payment", "kakao", "cancel">>,
     body |-> JsonBody("KakaoCancelRequest", CancelRequest("ORDER123", 25000).v)],
    [verb |-> "POST", path |-> <<"payment", "kakao", "cancel">>, body |-> MalformedBody] }

\* the input message: the JSON body decoded into the request type, overlaid
\* by the path parameters
BindTyped(b, params, body) ==
  LET T == RequestType(b.method)
      base == IF b.body = "*" THEN DecodeJSON(T, body.fields).v ELSE Zero(T)
  IN  Msg([n \in FieldNames(T) |-> IF n \in DOMAIN params THEN Str(params[n]) ELSE base[n]])

BindTypedOK(b, params, body) ==
  /\ DOMAIN params \subseteq FieldNames(RequestType(b.method))
  /\ b.body = "*" =>
       /\ body.ok
       /\ \A n \in FieldNames(RequestType(b.method)) :
            DecodeJSON(RequestType(b.method), body.fields).v[n] # Garbage

\* mutant: the service checks total_price only
CreateOrder_NoUserCheck(in) ==
  IF in.v.total_price.v <= 0 THEN {Ret(NilResp, "invalid_argument")}
  ELSE {Ret(Msg([id |-> Str("order-1")]), "nil"), Ret(NilResp, "internal")}

\* the Field Validation pattern: a service implementation of InsertOrder
\* that validates its required fields before going on
CreateOrder(in) ==
  IF in.v.user_id = Str("") THEN {Ret(NilResp, "invalid_argument")}
  ELSE IF in.v.total_price.v <= 0 THEN {Ret(NilResp, "invalid_argument")}
  ELSE {Ret(Msg([id |-> Str("order-1")]), "nil"), Ret(NilResp, "internal")}

ProductSample(id) ==
  Msg([Zero("Product") EXCEPT !.id = Str(id), !.name = Str("Case"), !.price = Num(25000)])

\* what an implemented service method may answer to request in
ServiceOutcomes(m, in) ==
  IF m = "InsertOrder" THEN CreateOrder(in)
  ELSE IF m = "GetProductByID"
    THEN {Ret(Msg([product |-> ProductSample(in.v.id.v)]), "nil"), Ret(NilResp, "not_found")}
  ELSE IF m = "KakaoCancel"
    THEN {Ret(Msg([partner_order_id |-> in.v.partner_order_id]), "nil"),
          Ret(NilResp, "not_found"), Ret(NilResp, "resource_exhausted")}
  ELSE {Ret(Msg(Zero(ResponseType(m))), "nil")}

ErrorBody(kind) == [code |-> [k |-> "jstr", v |-> kind]]

\* mutant: the translator refuses a request it has just answered
ForwardTyped_RefusesRepeats(m, ret, in, hist) ==
  IF Len(hist) > 0 /\ hist[Len(hist)].req = in
    THEN [status |-> 429, body |-> ErrorBody("resource_exhausted")]
  ELSE [status |-> HTTPStatusFromCode(ret.err),
        body |-> IF ret.err = "nil" THEN EncodeJSON(ResponseType(m), ret.resp.v)
                 ELSE ErrorBody(ret.err)]

\* the HTTP answer for the outcome ret of method m: the status of the failure
\* kind, the output message as JSON; in is the request, hist the exchanges
\* finished before
ForwardTyped(m, ret, in, hist) ==
  [status |-> HTTPStatusFromCode(ret.err),
   body |-> IF ret.err = "nil" THEN EncodeJSON(ResponseType(m), ret.resp.v)
            ELSE ErrorBody(ret.err)]

InitGateway ==
  /\ overridden \in {Methods, Methods \ {"InsertOrder"}}
  /\ interceptor = "nil"
  /\ transport = "http" /\ callM = "none" /\ callMsg = NoParams
  /\ req \in GwRequests
  /\ gpc = "received" /\ route = "none" /\ gwIn = NoParams
  /\ httpCtx = "live" /\ httpResp = NoHttpResp
  /\ cpc = "idle" /\ rpcName = "" /\ rpcIn = NoParams /\ out = NilResp
  /\ cliRet = NoRet /\ ctxDone = "none" /\ fault = FALSE
  /\ reqNet = NoFrame /\ replyNet = NoReply
  /\ srvM = "none" /\ srvIn = NoParams /\ srvCalls = 0 /\ icCalls = 0 /\ icInfo = ""
  /\ decRet = "none" /\ hdlRet = NoRet
  /\ AuxQuiet

GwBindTyped ==
  /\ gpc = "routed"
  /\ LET b == RuleOf(route)
         p == PathParams(b.path, req.path)
     IN  IF BindTypedOK(b, p, req.body)
           THEN /\ gwIn' = BindTyped(b, p, req.body)
                /\ gpc' = "bound"
                /\ httpResp' = httpResp
           ELSE /\ gwIn' = gwIn
                /\ gpc' = "responded"
                /\ httpResp' = ForwardTyped(route, Ret(NilResp, "invalid_argument"), req, prev)
  /\ UNCHANGED <<auxVars, cfgVars, callerVars, req, route, httpCtx, cliVars, netVars, srvVars>>

\* the proxied call: client method, handler, service method, reply, return
GwCallTyped ==
  /\ gpc = "bound"
  /\ \E o \in ServiceOutcomes(route, gwIn) :
       LET svc == IF route \in overridden THEN o ELSE Unimplemented(route)
           h == Handler("nil", interceptor, svc)
           reply == WireReply(h.ret)
       IN  /\ hdlRet' = h.ret
           /\ srvCalls' = h.svcCalls /\ icCalls' = h.icCalls
           /\ icInfo' = IF h.icCalls > 0 THEN HandlerInfo(route).FullMethod ELSE ""
           /\ srvM' = HandlerInfo(route).invokes /\ srvIn' = gwIn /\ decRet' = "nil"
           /\ rpcName' = FullMethodName(route) /\ rpcIn' = gwIn
           /\ cliRet' = ClientReturn(reply.resp, reply.err)
  /\ gpc' = "invoked"
  /\ cpc' = "returned"
  /\ UNCHANGED <<auxVars, cfgVars, callerVars, req, route, gwIn, httpCtx, httpResp, out,
                 ctxDone, fault, netVars>>

GwRespondTyped ==
  /\ gpc = "invoked"
  /\ gpc' = "responded"
  /\ httpResp' = ForwardTyped(route, cliRet, req, prev)
  /\ UNCHANGED <<auxVars, cfgVars, callerVars, req, route, gwIn, httpCtx, cliVars, netVars,
                 srvVars>>

\* the exchange is over and the next request arrives
GwNextRequest ==
  /\ gpc = "responded"
  /\ Len(prev) < MaxHistory
  /\ prev' = Append(prev, [req |-> req, route |-> route, ret |-> cliRet, resp |-> httpResp])
  /\ req' \in GwRequests
  /\ gpc' = "received" /\ route' = "none" /\ gwIn' = NoParams /\ httpResp' = NoHttpResp
  /\ cpc' = "idle" /\ rpcName' = "" /\ rpcIn' = NoParams /\ cliRet' = NoRet
  /\ srvM' = "none" /\ srvIn' = NoParams /\ srvCalls' = 0 /\ icCalls' = 0 /\ icInfo' = ""
  /\ decRet' = "none" /\ hdlRet' = NoRet
  /\ UNCHANGED <<exceptSeq, cfgVars, callerVars, httpCtx, out, ctxDone, fault, netVars>>

NextGateway == GwMatch \/ GwBindTyped \/ GwCallTyped \/ GwRespondTyped \/ GwNextRequest

SpecGateway == InitGateway /\ [][NextGateway]_vars

\* ------------------------------- concurrent calls on one client (SpecConc)
\* calls in flight at once on one client and one connection
MaxCalls == 2
CallIds == 1..MaxCalls

\* the requests the concurrent callers make
ConcRequests ==
  UNION {{<<m, msg>> : msg \in {ZeroMsg(m), [ZeroMsg(m) EXCEPT !.email = "v2"]}} :
           m \in {"Login", "Register"}}

\* what the service answers a concurrent call with
ConcOutcomes(m) ==
  {Ret([type |-> m, val |-> v], "nil") : v \in RespVals} \cup {Ret(NilResp, "not_found")}

\* mutant: the client keeps one output message in its struct for all calls
OutSlot_Shared(i) == 1

\* the output message of call i: every call of a client method allocates its
\* own (out := new(...)); the client struct holds the connection only
OutSlot(i) == i

NoCall ==
  [pc |-> "idle", m |-> "none", msg |-> NoParams, slot |-> 0, wire |-> "none",
   reply |-> NoRet, produced |-> NoRet, ret |-> NoRet]

InitConc ==
  /\ overridden = Methods /\ interceptor = "nil"
  /\ Quiet
  /\ DocQuiet
  /\ calls = [i \in CallIds |-> NoCall]
  /\ outs = [i \in CallIds |-> NilResp]
  /\ codec = NoCodec /\ prev = <<>> /\ conns = <<>> /\ cset = NoSet /\ flow = NoFlow

\* call i enters a client method: out is allocated, Invoke sends the request
ConcEnterOf(i) ==
  /\ calls[i].pc = "idle"
  /\ \E r \in ConcRequests :
       /\ calls' = [calls EXCEPT ![i] =
                      [NoCall EXCEPT !.pc = "waiting", !.m = r[1], !.msg = r[2],
                                     !.slot = OutSlot(i), !.wire = "req"]]
       /\ outs' = [outs EXCEPT ![OutSlot(i)] = NewResp(r[1])]
  /\ UNCHANGED exceptConc

\* the server handles the request of call i and sends its reply
ConcServeOf(i) ==
  /\ calls[i].wire = "req"
  /\ \E o \in ConcOutcomes(calls[i].m) :
       LET h == Handler("nil", interceptor, o)
       IN  calls' = [calls EXCEPT ![i].wire = "reply", ![i].produced = h.ret,
                                  ![i].reply = WireReply(h.ret)]
  /\ UNCHANGED <<outs, exceptConc>>

\* Invoke of call i gets its reply, decodes it into out, and the client method
\* returns; a successful call returns its out, held here by its slot
ConcReturnOf(i) ==
  /\ calls[i].pc = "waiting"
  /\ calls[i].wire = "reply"
  /\ outs' = IF calls[i].reply.err = "nil"
               THEN [outs EXCEPT ![calls[i].slot] = calls[i].reply.resp]
               ELSE outs
  /\ calls' = [calls EXCEPT ![i].pc = "returned", ![i].wire = "none",
                            ![i].ret = ClientReturn(calls[i].slot, calls[i].reply.err)]
  /\ UNCHANGED exceptConc

\* the caller of call i is done with the result
ConcDoneOf(i) ==
  /\ calls[i].pc = "returned"
  /\ calls' = [calls EXCEPT ![i] = NoCall]
  /\ UNCHANGED <<outs, exceptConc>>

ConcEnter == \E i \in CallIds : ConcEnterOf(i)
ConcServe == \E i \in CallIds : ConcServeOf(i)
ConcReturn == \E i \in CallIds : ConcReturnOf(i)
ConcDone == \E i \in CallIds : ConcDoneOf(i)

NextConc == ConcEnter \/ ConcServe \/ ConcReturn \/ ConcDone

SpecConc == InitConc /\ [][NextConc]_vars

\* ------------------------------------------ client sets (SpecConn)
\* most calls of Close on one client set
MaxCloses == 2
\* the connections, oldest first, whose establishment and dial timeout are followed
MaxWatched == 1

ServiceOrder == <<"account", "order", "payment", "product">>

\* addresses a caller passes
ConnAddresses == {"localhost:50051", "api.example.com:443"}
ServiceAddresses ==
  [account |-> "account-service:50051", order |-> "order-service:50052",
   payment |-> "payment-service:50053", product |-> "product-service:50054"]

DefaultClientConfig(address) ==
  [Address |-> address, Insecure |-> TRUE, DialTimeout |-> 5,
   KeepAliveTime |-> 30, KeepAliveTimeout |-> 5, Authority |-> ""]

ProductionClientConfig(address) ==
  [Address |-> address, Insecure |-> FALSE, DialTimeout |-> 10,
   KeepAliveTime |-> 60, KeepAliveTimeout |-> 10, Authority |-> ""]

\* the authority a caller may set on a configuration it was given
CustomAuthority == "api.example.com"

\* the configurations a caller passes: those of the two constructors, as they
\* are or with Authority set
ConfigFns ==
  {"DefaultClientConfig", "ProductionClientConfig",
   "DefaultClientConfig+Authority", "ProductionClientConfig+Authority"}
ConfigOf(fn, address) ==
  CASE fn = "DefaultClientConfig" -> DefaultClientConfig(address)
    [] fn = "ProductionClientConfig" -> ProductionClientConfig(address)
    [] fn = "DefaultClientConfig+Authority" ->
         [DefaultClientConfig(address) EXCEPT !.Authority = CustomAuthority]
    [] fn = "ProductionClientConfig+Authority" ->
         [ProductionClientConfig(address) EXCEPT !.Authority = CustomAuthority]

\* what grpc.DialContext may answer: a connection, or one of these errors
DialErrors == {"context deadline exceeded", "invalid target"}
DialOutcomes == {"ok"} \cup DialErrors
\* what Close of a connection may answer
CloseErrors == {"nil", "close failed", "grpc: the client connection is closing"}

NoErr == [msg |-> "", cause |-> "nil"]
\* fmt.Errorf(msg ": %w", cause)
Wrap(msg, cause) == [msg |-> msg, cause |-> cause]

\* grpc.WithTransportCredentials(creds), grpc.WithKeepaliveParams(params)
WithTransportCredentials(creds) == [opt |-> "WithTransportCredentials", arg |-> creds]
WithKeepaliveParams(params) == [opt |-> "WithKeepaliveParams", arg |-> params]

\* mutant: TLS is appended whatever config.Insecure says
DialOptions_TLSAlso(config) ==
  (IF config.Insecure
   THEN <<WithTransportCredentials([kind |-> "insecure", ServerName |-> ""])>>
   ELSE <<>>)
  \o <<WithTransportCredentials([kind |-> "tls", ServerName |-> config.Authority]),
       WithKeepaliveParams([Time |-> config.KeepAliveTime,
                            Timeout |-> config.KeepAliveTimeout,
                            PermitWithoutStream |-> TRUE])>>

\* the dial options NewConnection assembles from a configuration, in the order
\* it appends them
DialOptions(config) ==
  <<IF config.Insecure
    THEN WithTransportCredentials([kind |-> "insecure", ServerName |-> ""])
    ELSE WithTransportCredentials([kind |-> "tls", ServerName |-> config.Authority]),
    WithKeepaliveParams([Time |-> config.KeepAliveTime,
                         Timeout |-> config.KeepAliveTimeout,
                         PermitWithoutStream |-> TRUE])>>

\* grpc.DialContext waits for the connection to be established, within the
\* context's deadline, only when the options hold grpc.WithBlock(); without it
\* the dial returns at once and the connection is established in the background
Blocking(opts) == \E i \in DOMAIN opts : opts[i].opt = "WithBlock"

\* NewConnection: the connection table after the dial and what is returned;
\* a connection is named by its place in the table, 0 is nil
NewConnection(table, config, outcome) ==
  IF outcome = "ok"
  THEN [table |-> Append(table, [target |-> config.Address, opts |-> DialOptions(config),
                                 dialTimeout |-> config.DialTimeout,
                                 established |-> Blocking(DialOptions(config)),
                                 deadline |-> "pending",
                                 open |-> TRUE, closes |-> 0, closeErr |-> "nil"]),
        conn |-> Len(table) + 1, err |-> "nil"]
  ELSE [table |-> table, conn |-> 0, err |-> outcome]

\* conn.Close() on the connections in the domain of rets, each answering rets[i]
CloseConns(table, rets) ==
  [i \in DOMAIN table |->
     IF i \in DOMAIN rets
     THEN [table[i] EXCEPT !.open = FALSE, !.closes = @ + 1, !.closeErr = rets[i]]
     ELSE table[i]]

NilSet == [Account |-> 0, Order |-> 0, Payment |-> 0, Product |-> 0, conn |-> 0]

\* mutant: the product client is built on no connection
ClientSetOf_ProductUnbound(conn) ==
  [Account |-> conn, Order |-> conn, Payment |-> conn, Product |-> 0, conn |-> conn]

\* &ClientSet{...}: every client is NewXServiceClient(conn)
ClientSetOf(conn) ==
  [Account |-> conn, Order |-> conn, Payment |-> conn, Product |-> conn, conn |-> conn]

\* mutant: a failure closes the account connection only
ClosedOnFailure_OnlyAccount(opened) == {opened[i] : i \in DOMAIN opened \cap {1}}

\* the connections a failed NewDistributedClientSet closes before returning
ClosedOnFailure(opened) == {opened[i] : i \in DOMAIN opened}

InitConn ==
  /\ overridden = Methods /\ interceptor = "nil"
  /\ Quiet
  /\ DocQuiet
  /\ calls = <<>> /\ outs = <<>> /\ codec = NoCodec /\ prev = <<>> /\ flow = NoFlow
  /\ conns = <<>>
  /\ \E kind \in {"shared", "distributed"} : \E fn \in ConfigFns :
     \E address \in ConnAddresses :
       cset = [pc |-> "start", kind |-> kind, fn |-> fn,
               address |-> IF kind = "shared" THEN address ELSE "",
               opened |-> <<>>, set |-> NilSet, err |-> NoErr,
               closeRet |-> "nil", closeCalls |-> 0]

\* NewClientSet(config)
ConnNewClientSet ==
  /\ cset.pc = "start" /\ cset.kind = "shared"
  /\ \E outcome \in DialOutcomes :
       LET r == NewConnection(conns, ConfigOf(cset.fn, cset.address), outcome) IN
         /\ conns' = r.table
         /\ cset' = IF r.err # "nil"
                    THEN [cset EXCEPT !.pc = "failed", !.set = NilSet,
                                      !.err = Wrap("failed to create connection", r.err)]
                    ELSE [cset EXCEPT !.pc = "ready", !.opened = <<r.conn>>,
                                      !.set = ClientSetOf(r.conn)]
  /\ UNCHANGED exceptConn

\* (*ClientSet).Close
ConnSetClose ==
  /\ cset.pc \in {"ready", "closed"} /\ cset.kind = "shared"
  /\ cset.closeCalls < MaxCloses
  /\ \E rets \in [{cset.set.conn} -> CloseErrors] :
       /\ conns' = CloseConns(conns, rets)
       /\ cset' = [cset EXCEPT !.pc = "closed", !.closeRet = rets[cset.set.conn],
                               !.closeCalls = @ + 1]
  /\ UNCHANGED exceptConn

\* NewDistributedClientSet(addresses, configFn): the next NewConnection of the
\* four, with the return that follows its failure or the last one's success
ConnDistDial ==
  /\ cset.pc \in {"start", "dialing"} /\ cset.kind = "distributed"
  /\ LET k == Len(cset.opened) + 1
         svc == ServiceOrder[k] IN
     \E outcome \in DialOutcomes :
       LET r == NewConnection(conns, ConfigOf(cset.fn, ServiceAddresses[svc]), outcome) IN
         IF r.err # "nil"
         THEN /\ \E rets \in [ClosedOnFailure(cset.opened) -> CloseErrors] :
                   conns' = CloseConns(r.table, rets)
              /\ cset' = [cset EXCEPT !.pc = "failed", !.set = NilSet,
                            !.err = Wrap("failed to connect to " \o svc \o " service", r.err)]
         ELSE /\ conns' = r.table
              /\ cset' = IF k < Len(ServiceOrder)
                         THEN [cset EXCEPT !.pc = "dialing", !.opened = Append(@, r.conn)]
                         ELSE LET all == Append(cset.opened, r.conn) IN
                              [cset EXCEPT !.pc = "ready", !.opened = all,
                                 !.set = [Account |-> all[1], Order |-> all[2],
                                          Payment |-> all[3], Product |-> all[4],
                                          conn |-> 0]]
  /\ UNCHANGED exceptConn

\* mutant: the loop keeps the first error it meets
RECURSIVE LastErr_KeepsFirst(_, _)
LastErr_KeepsFirst(rets, lastErr) ==
  IF rets = <<>> THEN lastErr
  ELSE LastErr_KeepsFirst(Tail(rets),
         IF Head(rets) # "nil" /\ lastErr = "nil" THEN Head(rets) ELSE lastErr)

\* the error the loop of (*DistributedClientSet).Close leaves in lastErr
RECURSIVE LastErr(_, _)
LastErr(rets, lastErr) ==
  IF rets = <<>> THEN lastErr
  ELSE LastErr(Tail(rets), IF Head(rets) # "nil" THEN Head(rets) ELSE lastErr)

\* (*DistributedClientSet).Close
ConnDistClose ==
  /\ cset.pc \in {"ready", "closed"} /\ cset.kind = "distributed"
  /\ cset.closeCalls < MaxCloses
  /\ \E rets \in [{cset.opened[i] : i \in DOMAIN cset.opened} -> CloseErrors] :
       /\ conns' = CloseConns(conns, rets)
       /\ cset' = [cset EXCEPT !.pc = "closed",
                               !.closeRet = LastErr([i \in DOMAIN cset.opened |->
                                                       rets[cset.opened[i]]], "nil"),
                               !.closeCalls = @ + 1]
  /\ UNCHANGED exceptConn

\* the transport of an open connection becomes ready, in the background
ConnEstablishOf(i) ==
  /\ i \in DOMAIN conns /\ i <= MaxWatched
  /\ conns[i].open /\ ~conns[i].established
  /\ conns' = [conns EXCEPT ![i].established = TRUE]
  /\ UNCHANGED <<cset, exceptConn>>

ConnEstablish == \E i \in 1..MaxWatched : ConnEstablishOf(i)

\* config.DialTimeout has passed since connection i was dialled
ConnDialTimeoutOf(i) ==
  /\ i \in DOMAIN conns /\ i <= MaxWatched
  /\ conns[i].deadline = "pending"
  /\ conns' = [conns EXCEPT ![i].deadline = IF conns[i].established THEN "met" ELSE "missed"]
  /\ UNCHANGED <<cset, exceptConn>>

ConnDialTimeout == \E i \in 1..MaxWatched : ConnDialTimeoutOf(i)

NextConn ==
  \/ ConnNewClientSet \/ ConnSetClose \/ ConnDistDial \/ ConnDistClose
  \/ ConnEstablish \/ ConnDialTimeout

SpecConn == InitConn /\ [][NextConn]_vars

\* ------------------------------------- the retry pattern (SpecRetry)
maxRetries == 3
\* milliseconds
baseDelay == 100

\* errors fn may return: a gRPC status error of some code, or an error that
\* carries no status (status.FromError answers ok = false for it)
NilError == [grpc |-> TRUE, code |-> "nil"]
StatusError(kind) == [grpc |-> TRUE, code |-> kind]
PlainError == [grpc |-> FALSE, code |-> "unknown"]
FnErrorKinds ==
  {"unavailable", "deadline_exceeded", "resource_exhausted", "invalid_argument", "internal"}
FnErrors == {StatusError(kind) : kind \in FnErrorKinds} \cup {PlainError}

\* results of fn; ZeroResult is the zero value of T
ZeroResult == "zero"
FnResults == {"r1", "r2"}
\* what one call of fn returns
FnOutcomes ==
  {[result |-> r, err |-> NilError] : r \in FnResults}
    \cup {[result |-> ZeroResult, err |-> e] : e \in FnErrors}

\* case codes.Unavailable, codes.DeadlineExceeded, codes.ResourceExhausted
RetryCodes == {"unavailable", "deadline_exceeded", "resource_exhausted"}

\* the err the final return statement names: the loop declares its own result
\* and err with :=, so this is a variable of an enclosing scope that the loop
\* never assigns
OuterErrs == {NilError, StatusError("internal")}

\* time.Duration(1<<uint(i)) * baseDelay
Delay(i) == (2 ^ i) * baseDelay

InitRetry ==
  /\ overridden = Methods /\ interceptor = "nil"
  /\ Quiet
  /\ calls = <<>> /\ outs = <<>> /\ codec = NoCodec /\ prev = <<>>
  /\ conns = <<>> /\ cset = NoSet /\ flow = NoFlow
  /\ pool = NoPool /\ example = NoExample
  /\ \E e \in OuterErrs :
       retry = [pc |-> "loop", i |-> 0, result |-> ZeroResult, err |-> e,
                fnCalls |-> <<>>, sleeps |-> <<>>,
                ret |-> [result |-> ZeroResult, err |-> NilError]]

\* one iteration of the loop: the call of fn and what follows it
RetryAttempt ==
  /\ retry.pc = "loop" /\ retry.i < maxRetries
  /\ \E o \in FnOutcomes :
       LET called == [retry EXCEPT !.fnCalls = Append(@, o)] IN
       retry' =
         IF o.err = NilError
         THEN [called EXCEPT !.pc = "returned", !.ret = [result |-> o.result, err |-> NilError]]
         ELSE IF o.err.grpc
         THEN IF o.err.code \in RetryCodes
              THEN IF retry.i < maxRetries - 1
                   THEN [called EXCEPT !.sleeps = Append(@, [i |-> retry.i, delay |-> Delay(retry.i)]),
                                       !.i = @ + 1]
                   ELSE [called EXCEPT !.i = @ + 1]
              ELSE [called EXCEPT !.pc = "returned", !.ret = [result |-> o.result, err |-> o.err]]
         ELSE [called EXCEPT !.i = @ + 1]
  /\ UNCHANGED exceptRetry

\* the return after the loop
RetryExhausted ==
  /\ retry.pc = "loop" /\ retry.i >= maxRetries
  /\ retry' = [retry EXCEPT !.pc = "returned",
                            !.ret = [result |-> retry.result, err |-> retry.err]]
  /\ UNCHANGED exceptRetry

NextRetry == RetryAttempt \/ RetryExhausted

SpecRetry == InitRetry /\ [][NextRetry]_vars


\* ----------------------- ExampleKakaoPaymentFlow (SpecExample)
\* what the services may answer in the flow
ExampleProducts ==
  {[id |-> "prod001", name |-> "Case", price |-> 25000],
   [id |-> "prod001", name |-> "", price |-> 0], [id |-> "nil"]}
ExampleOrderIds == {"order-1", "order-2", ""}
ExampleTids == {"T1", ""}
ExampleErrors == {"unavailable", "invalid_argument"}

\* the steps of the flow, in program order
ExampleSteps == <<"GetProductByID", "InsertOrder", "KakaoReady", "KakaoApprove">>

GetProductByIDRequestOf == [id |-> "prod001"]

InsertOrderRequestOf(product) ==
  [user_id |-> "user123", order_number |-> "ORD-20240122-001", status |-> "PENDING",
   total_price |-> product.price, quantity |-> 1, payment_method |-> "KAKAO_PAY",
   items |-> <<[product_id |-> product.id, product_name |-> product.name,
                product_price |-> product.price, quantity |-> 1]>>]

KakaoReadyRequestOf(product, order) ==
  [partner_order_id |-> order.id, partner_user_id |-> "user123",
   item_name |-> product.name, quantity |-> 1,
   total_amount |-> product.price, tax_free_amount |-> 0]

\* mutant: the approval names the order by a fixed id
KakaoApproveRequestOf_FixedOrder(order, paymentReady) ==
  [tid |-> paymentReady.tid, partner_order_id |-> "order-123",
   partner_user_id |-> "user123", pg_token |-> "payment_token_from_kakao_callback"]

KakaoApproveRequestOf(order, paymentReady) ==
  [tid |-> paymentReady.tid, partner_order_id |-> order.id,
   partner_user_id |-> "user123", pg_token |-> "payment_token_from_kakao_callback"]

NoAnswer == [id |-> "nil"]

InitExample ==
  /\ overridden = Methods /\ interceptor = "nil"
  /\ Quiet
  /\ calls = <<>> /\ outs = <<>> /\ codec = NoCodec /\ prev = <<>> /\ flow = NoFlow
  /\ retry = NoRetry /\ pool = NoPool
  /\ conns = <<>> /\ cset = NoSet
  /\ example = [pc |-> "start", issued |-> <<>>, product |-> NoAnswer, order |-> NoAnswer,
                paymentReady |-> NoAnswer, exit |-> "none"]

\* leaving the function, by return or by panic: the deferred clients.Close()
\* runs if it has been registered
ExampleExit(how, issued) ==
  /\ \E rets \in [{cset.set.conn} -> CloseErrors] :
       /\ conns' = CloseConns(conns, rets)
       /\ cset' = [cset EXCEPT !.pc = "closed", !.closeRet = rets[cset.set.conn],
                               !.closeCalls = @ + 1]
  /\ example' = [example EXCEPT !.pc = "exited", !.exit = how, !.issued = issued]

\* config := DefaultClientConfig("localhost:50051"); NewClientSet(config);
\* panic on error, else defer clients.Close()
ExNewClientSet ==
  /\ example.pc = "start"
  /\ \E outcome \in DialOutcomes :
       LET r == NewConnection(conns, DefaultClientConfig("localhost:50051"), outcome) IN
         /\ conns' = r.table
         /\ IF r.err # "nil"
            THEN /\ cset' = [pc |-> "failed", kind |-> "shared", fn |-> "DefaultClientConfig",
                             address |-> "localhost:50051", opened |-> <<>>, set |-> NilSet,
                             err |-> Wrap("failed to create connection", r.err),
                             closeRet |-> "nil", closeCalls |-> 0]
                 /\ example' = [example EXCEPT !.pc = "exited", !.exit = "panic"]
            ELSE /\ cset' = [pc |-> "ready", kind |-> "shared", fn |-> "DefaultClientConfig",
                             address |-> "localhost:50051", opened |-> <<r.conn>>,
                             set |-> ClientSetOf(r.conn), err |-> NoErr,
                             closeRet |-> "nil", closeCalls |-> 0]
                 /\ example' = [example EXCEPT !.pc = "GetProductByID"]
  /\ UNCHANGED exceptExample

\* AuthenticatedContext(ctx, authType, token): the outgoing metadata
AuthenticatedContext(authType, token) == [authorization |-> authType \o " " \o token]

\* one call of the flow: the request, the context and the client it goes
\* through, its outcome
Issue(method, client, request, err) ==
  Append(example.issued, [method |-> method, conn |-> cset.set[client],
                          md |-> AuthenticatedContext("Bearer", "user-jwt-token"),
                          req |-> request, err |-> err])

\* Step 2: clients.Product.GetProductByID
ExGetProduct ==
  /\ example.pc = "GetProductByID"
  /\ \/ \E p \in ExampleProducts :
          /\ example' = [example EXCEPT !.pc = "InsertOrder", !.product = p,
                           !.issued = Issue("GetProductByID", "Product", GetProductByIDRequestOf, "nil")]
          /\ UNCHANGED connVars
     \/ \E e \in ExampleErrors :
          ExampleExit("panic", Issue("GetProductByID", "Product", GetProductByIDRequestOf, e))
  /\ UNCHANGED exceptExample

\* Step 3: clients.Order.InsertOrder; reading product.Product.Price panics
\* when the response holds no product
ExInsertOrder ==
  /\ example.pc = "InsertOrder"
  /\ IF example.product = NoAnswer
     THEN ExampleExit("panic", example.issued)
     ELSE LET request == InsertOrderRequestOf(example.product) IN
          \/ \E id \in ExampleOrderIds :
               /\ example' = [example EXCEPT !.pc = "KakaoReady", !.order = [id |-> id],
                                !.issued = Issue("InsertOrder", "Order", request, "nil")]
               /\ UNCHANGED connVars
          \/ \E e \in ExampleErrors :
               ExampleExit("panic", Issue("InsertOrder", "Order", request, e))
  /\ UNCHANGED exceptExample

\* Step 4: clients.Payment.KakaoReady
ExKakaoReady ==
  /\ example.pc = "KakaoReady"
  /\ LET request == KakaoReadyRequestOf(example.product, example.order) IN
     \/ \E tid \in ExampleTids :
          /\ example' = [example EXCEPT !.pc = "KakaoApprove", !.paymentReady = [tid |-> tid],
                           !.issued = Issue("KakaoReady", "Payment", request, "nil")]
          /\ UNCHANGED connVars
     \/ \E e \in ExampleErrors :
          ExampleExit("panic", Issue("KakaoReady", "Payment", request, e))
  /\ UNCHANGED exceptExample

\* Step 5: clients.Payment.KakaoApprove, then the end of the function
ExKakaoApprove ==
  /\ example.pc = "KakaoApprove"
  /\ LET request == KakaoApproveRequestOf(example.order, example.paymentReady) IN
     \/ ExampleExit("return", Issue("KakaoApprove", "Payment", request, "nil"))
     \/ \E e \in ExampleErrors :
          ExampleExit("panic", Issue("KakaoApprove", "Payment", request, e))
  /\ UNCHANGED exceptExample

NextExample == ExNewClientSet \/ ExGetProduct \/ ExInsertOrder \/ ExKakaoReady \/ ExKakaoApprove

SpecExample == InitExample /\ [][NextExample]_vars

\* ------------------------------- the connection pool pattern (SpecPool)
\* clients in the pool, and concurrent callers of GetClient
PoolSize == 2
PoolCallers == 1..PoolSize

NoClient == -1

InitPool ==
  /\ overridden = Methods /\ interceptor = "nil"
  /\ Quiet
  /\ calls = <<>> /\ outs = <<>> /\ codec = NoCodec /\ prev = <<>> /\ flow = NoFlow
  /\ conns = <<>> /\ cset = NoSet
  /\ retry = NoRetry /\ example = NoExample
  /\ \E start \in 0..(PoolSize - 1) :
       pool = [pc |-> "running", current |-> start, readers |-> 0,
               callers |-> [g \in PoolCallers |->
                              [pc |-> "idle", client |-> NoClient, loaded |-> 0]]]

\* p.mutex.RLock(): a read lock is shared, it waits for writers only and
\* nothing in the pool ever takes the write lock
PoolRLockOf(g) ==
  /\ pool.pc = "running" /\ pool.callers[g].pc = "idle"
  /\ pool' = [pool EXCEPT !.readers = @ + 1, !.callers[g].pc = "locked"]
  /\ UNCHANGED exceptPool

\* client := p.clients[p.current]
PoolPickOf(g) ==
  /\ pool.pc = "running" /\ pool.callers[g].pc = "locked"
  /\ pool' = [pool EXCEPT !.callers[g].client = pool.current, !.callers[g].pc = "picked"]
  /\ UNCHANGED exceptPool

\* p.current = (p.current + 1) % len(p.clients): the read of p.current
PoolLoadOf(g) ==
  /\ pool.pc = "running" /\ pool.callers[g].pc = "picked"
  /\ pool' = [pool EXCEPT !.callers[g].loaded = pool.current, !.callers[g].pc = "loaded"]
  /\ UNCHANGED exceptPool

\* p.current = (p.current + 1) % len(p.clients): the write of p.current
PoolStoreOf(g) ==
  /\ pool.pc = "running" /\ pool.callers[g].pc = "loaded"
  /\ pool' = [pool EXCEPT !.current = (pool.callers[g].loaded + 1) % PoolSize,
                          !.callers[g].pc = "stored"]
  /\ UNCHANGED exceptPool

\* return client, with the deferred p.mutex.RUnlock()
PoolReturnOf(g) ==
  /\ pool.pc = "running" /\ pool.callers[g].pc = "stored"
  /\ pool' = [pool EXCEPT !.readers = @ - 1, !.callers[g].pc = "returned"]
  /\ UNCHANGED exceptPool

PoolRLock == \E g \in PoolCallers : PoolRLockOf(g)
PoolPick == \E g \in PoolCallers : PoolPickOf(g)
PoolLoad == \E g \in PoolCallers : PoolLoadOf(g)
PoolStore == \E g \in PoolCallers : PoolStoreOf(g)
PoolReturn == \E g \in PoolCallers : PoolReturnOf(g)

NextPool == PoolRLock \/ PoolPick \/ PoolLoad \/ PoolStore \/ PoolReturn

SpecPool == InitPool /\ [][NextPool]_vars

\* ------------------------- handlers under any interceptor (SpecHandler)
InitHandler ==
  /\ overridden \in ServerImpls
  /\ interceptor \in HandlerInterceptors
  /\ Quiet
  /\ AuxQuiet

NextHandler == CallGrpc \/ SendMalformed \/ ServerHandle \/ ClientReceive \/ Finish

SpecHandler == InitHandler /\ [][NextHandler]_vars

\* ===================================================================== claims

\* the call in progress was made by a caller of method callM, is over, and
\* neither a cancellation nor a transport failure cut it short
Undisturbed == fault = FALSE /\ cliRet.err \notin CtxKinds

\* C1: for every catalog method and input message, a call through the HTTP
\* route and a call through the binary client reach the same server method
\* with an equal input message and give the caller the server's own outcome:
\* over either transport the service method that runs is the one called, it
\* is handed the caller's message, and the call returns what the handler
\* answered (the same response, or the same failure kind).
C1_TransportsEquivalent ==
  (transport \in {"grpc", "http"} /\ (transport = "http" => req.body.ok)) =>
    /\ gpc \in {"routed", "bound", "invoked"} => route = callM
    /\ gpc \in {"bound", "invoked"} => gwIn = callMsg
    /\ gpc = "responded" => route = callM /\ cpc = "returned"
    /\ cpc # "idle" => rpcName = FullMethodName(callM) /\ rpcIn = callMsg
    /\ srvCalls > 0 => srvM = callM /\ srvIn = callMsg
    /\ (cpc = "returned" /\ Undisturbed) =>
         /\ hdlRet # NoRet
         /\ cliRet = WireReply(hdlRet)
         /\ gpc = "responded" =>
              /\ httpResp.body = cliRet.resp
              /\ httpResp.status = HTTPStatusFromCode(hdlRet.err)

C1_Witness ==
  /\ transport = "http" /\ callM = "GetProductOptions" /\ callMsg.id = "prod001"
  /\ gpc = "responded" /\ httpResp.status = 200 /\ httpResp.body.val = "r1"
  /\ srvM = "GetProductOptions" /\ srvIn = callMsg

\* the method catalog: method, verb, path template
MethodCatalog ==
  { <<"GetKakaoLoginURL", "GET", <<"oauth", "kakao", "login">> >>,
    <<"GetKakaoCallBack", "POST", <<"oauth", "kakao", "callback">> >>,
    <<"Login", "POST", <<"login">> >>,
    <<"Register", "POST", <<"register">> >>,
    <<"InsertOrder", "POST", <<"v1", "order", "insert">> >>,
    <<"GetAllOrders", "GET", <<"v1", "order">> >>,
    <<"KakaoReady", "POST", <<"payment", "kakao", "ready">> >>,
    <<"KakaoApprove", "POST", <<"payment", "kakao", "approve">> >>,
    <<"KakaoCancel", "POST", <<"payment", "kakao", "cancel">> >>,
    <<"GetProducts", "GET", <<"products">> >>,
    <<"GetProductByID", "GET", <<"products", "{id}">> >>,
    <<"PostProducts", "POST", <<"products">> >>,
    <<"GetProductOptions", "POST", <<"product", "{id}", "options">> >> }

\* C2: each of the 13 RPC methods (4 Account, 2 Order, 3 Payment, 4 Product)
\* is bound to exactly one HTTP verb and path template, the one the catalog
\* lists, and no two methods share a (verb, path template) pair; a request
\* the gateway routed carries the verb and fits the template of its method.
C2_OneBindingPerMethod ==
  /\ Cardinality(Methods) = 13
  /\ Cardinality(AccountMethods) = 4 /\ Cardinality(OrderMethods) = 2
  /\ Cardinality(PaymentMethods) = 3 /\ Cardinality(ProductMethods) = 4
  /\ \A m \in Methods : Cardinality({b \in HttpRules : b.method = m}) = 1
  /\ {<<b.method, b.verb, b.path>> : b \in HttpRules} = MethodCatalog
  /\ \A b1, b2 \in HttpRules :
       (b1.verb = b2.verb /\ b1.path = b2.path) => b1.method = b2.method
  /\ gpc \in {"routed", "bound", "invoked"} =>
       \E c \in MethodCatalog :
         c[1] = route /\ c[2] = req.verb /\ Len(c[3]) = Len(req.path)

C2_Witness ==
  /\ gpc = "routed" /\ route = "KakaoCancel"
  /\ req.verb = "POST" /\ req.path = <<"payment", "kakao", "cancel">>

\* C3: route resolution is deterministic and most-specific: a (verb, path)
\* request matches at most one method; GET /products resolves to
\* GetProducts, GET /products/<segment> to GetProductByID with id = <segment>,
\* POST /products to PostProducts and POST /product/<segment>/options to
\* GetProductOptions.
C3_RouteDeterministic ==
  /\ Cardinality(MatchRoute(req.verb, req.path)) <= 1
  /\ gpc \notin {"none", "received"} =>
       /\ (req.verb = "GET" /\ req.path = <<"products">>) => route = "GetProducts"
       /\ (req.verb = "GET" /\ Len(req.path) = 2 /\ req.path[1] = "products") =>
            /\ route = "GetProductByID"
            /\ gpc \in {"bound", "invoked"} => gwIn = [id |-> req.path[2]]
       /\ (req.verb = "POST" /\ req.path = <<"products">>) => route = "PostProducts"
       /\ (req.verb = "POST" /\ Len(req.path) = 3 /\ req.path[1] = "product"
             /\ req.path[3] = "options") => route = "GetProductOptions"

C3_Witness ==
  /\ gpc = "bound" /\ route = "GetProductByID"
  /\ req.verb = "GET" /\ req.path = <<"products", "products">>
  /\ gwIn.id = "products"

\* C4: the input message the gateway hands to the RPC method has fields
\* exactly equal to the request's path parameters merged with its JSON body
\* (absent members at their defaults; no body on GET); for GetProductOptions
\* the id field equals the path segment; a request is refused only for a
\* body that is malformed or has a member the message lacks.
C4_InputIsPathMergedWithBody ==
  /\ gpc \in {"bound", "invoked"} =>
       LET hasBody == \E c \in MethodCatalog : c[1] = route /\ c[2] = "POST"
           hasId == route \in {"GetProductByID", "GetProductOptions"}
       IN  /\ DOMAIN gwIn = DOMAIN RequestFields(route)
           /\ \A f \in DOMAIN gwIn :
                gwIn[f] = IF hasId /\ f = "id" THEN req.path[2]
                          ELSE IF hasBody /\ f \in DOMAIN req.body.fields
                                 THEN req.body.fields[f]
                          ELSE DefaultOf(RequestFields(route)[f])
           /\ route = "GetProductOptions" => gwIn.id = req.path[2]
           /\ gpc = "invoked" =>
                /\ rpcName = FullMethodName(route) /\ rpcIn = gwIn
                /\ reqNet.present => reqNet.msg = gwIn
  /\ (gpc = "responded" /\ route # "none" /\ cpc = "idle") =>
       /\ req.verb = "POST"
       /\ \/ ~req.body.ok
          \/ \E f \in DOMAIN req.body.fields : f \notin DOMAIN RequestFields(route)

C4_Witness ==
  /\ gpc = "invoked" /\ route = "GetProductOptions"
  /\ req.path = <<"product", "prod001", "options">>
  /\ DOMAIN req.body.fields = {"id"} /\ req.body.fields.id = "v2"
  /\ rpcIn.id = "prod001"

\* C5: a server that does not override a method answers every call that
\* reaches that method with a nil response and the failure kind
\* unimplemented; the binary client call then fails with unimplemented and
\* the gateway returns HTTP 501.
C5_UnimplementedDefault ==
  (srvCalls > 0 /\ srvM \notin overridden) =>
    /\ hdlRet = Ret(NilResp, "unimplemented")
    /\ (cpc = "returned" /\ Undisturbed) => cliRet = Ret(NilResp, "unimplemented")
    /\ (gpc = "responded" /\ Undisturbed) => httpResp.status = 501

C5_Witness ==
  /\ transport = "http" /\ gpc = "responded" /\ httpResp.status = 501
  /\ srvCalls = 1 /\ srvM = "Login" /\ srvM \notin overridden
  /\ cliRet = Ret(NilResp, "unimplemented")

\* C6: the gateway's HTTP status is a function of the RPC failure kind alone
\* and never recodes it: invalid-argument gives 400, unauthenticated 401,
\* permission-denied 403, not-found 404, resource-exhausted 429, unavailable
\* 503, internal 500 and unimplemented 501, so distinct kinds give distinct
\* statuses.
C6_StatusOfKind(k) ==
  CASE k = "invalid_argument" -> 400
    [] k = "unauthenticated" -> 401
    [] k = "permission_denied" -> 403
    [] k = "not_found" -> 404
    [] k = "resource_exhausted" -> 429
    [] k = "unavailable" -> 503
    [] k = "internal" -> 500
    [] k = "unimplemented" -> 501

C6_StatusFromKindAlone ==
  /\ \A k1, k2 \in Kinds :
       k1 # k2 => HTTPStatusFromCode(k1) # HTTPStatusFromCode(k2)
  /\ (transport = "http" /\ gpc = "responded" /\ cpc = "returned") =>
       /\ cliRet.err \in Kinds => httpResp.status = C6_StatusOfKind(cliRet.err)
       /\ (Undisturbed /\ hdlRet.err \in Kinds) =>
            httpResp.status = C6_StatusOfKind(hdlRet.err)
       /\ httpResp.status = 200 <=> cliRet.err = "nil"

C6_Witness ==
  /\ transport = "http" /\ gpc = "responded" /\ httpResp.status = 429
  /\ hdlRet = Ret(NilResp, "resource_exhausted") /\ srvM = "KakaoCancel"

\* C7 as claimed: when decoding the request payload fails, the handler
\* invokes neither the service method nor the interceptor, returns a nil
\* response, and the call fails with invalid-argument.
C7_DecodeFailureIsInvalidArgument ==
  (decRet \notin {"none", "nil"}) =>
    /\ srvCalls = 0 /\ icCalls = 0
    /\ hdlRet = Ret(NilResp, "invalid_argument")

\* C7 as amended: when decoding the request payload fails, the handler
\* invokes neither the service method nor the interceptor and returns a nil
\* response with the decoder's own error, unchanged, which is what the call
\* fails with; a body the gateway cannot decode is answered with HTTP 400
\* and no RPC is invoked.
C7_DecodeFailurePassedThrough ==
  /\ (decRet \notin {"none", "nil"}) =>
       /\ srvCalls = 0 /\ icCalls = 0
       /\ hdlRet = Ret(NilResp, decRet)
       /\ (cpc = "returned" /\ Undisturbed) => cliRet = Ret(NilResp, decRet)
  /\ (transport = "http" /\ gpc = "responded" /\ route # "none"
        /\ req.verb = "POST" /\ ~req.body.ok) =>
       /\ httpResp.status = 400
       /\ cpc = "idle" /\ srvCalls = 0 /\ icCalls = 0

C7_Witness ==
  /\ transport = "raw" /\ decRet = "internal" /\ interceptor = "pass"
  /\ hdlRet = Ret(NilResp, "internal") /\ cliRet = Ret(NilResp, "internal")
  /\ callM = "Login" /\ callM \in overridden

\* C8: every call outcome is exactly one of a response or a failure: a
\* client method returns (response, nil) on success and (nil, error) when
\* Invoke fails, discarding a partly filled output, and an Unimplemented
\* default method returns a nil response with its error.
C8_ResponseXorFailure ==
  /\ cpc = "returned" =>
       /\ \/ cliRet.resp # NilResp /\ cliRet.err = "nil"
          \/ cliRet.resp = NilResp /\ cliRet.err \in Kinds \cup CtxKinds
       /\ cliRet.err = "nil" => cliRet.resp = out /\ out.type = callM
       /\ out.val = "partial" => cliRet.resp = NilResp
  /\ (srvCalls > 0 /\ srvM \notin overridden) =>
       hdlRet.resp = NilResp /\ hdlRet.err # "nil"

C8_Witness ==
  /\ transport = "grpc" /\ cpc = "returned" /\ fault
  /\ out = [type |-> "Register", val |-> "partial"]
  /\ cliRet = Ret(NilResp, "internal")

\* C9: if the caller's cancellation or deadline fires before a reply for a
\* call arrives, the call fails with the deadline/cancelled outcome and
\* returns no response; a reply arriving afterwards never turns the call
\* into a success.
C9_CancelledCallFails ==
  (transport \in {"grpc", "raw"} /\ cpc = "returned" /\ ctxDone # "none") =>
    cliRet = Ret(NilResp, ctxDone)

C9_Witness ==
  /\ transport = "grpc" /\ cpc = "returned" /\ ctxDone = "deadline_exceeded"
  /\ srvCalls = 1 /\ hdlRet.err = "nil" /\ hdlRet.resp.val = "r2"
  /\ ~replyNet.present /\ ~reqNet.present
  /\ cliRet = Ret(NilResp, "deadline_exceeded")

\* C10: when the inbound HTTP request of a gateway-proxied call is cancelled
\* before the RPC completes, the underlying RPC call is cancelled too: its
\* context is done, and a call still waiting returns cancelled.
C10_HttpCancelReachesRpc ==
  [][(transport = "http" /\ httpCtx' = "canceled" /\ cpc' # "idle") =>
       /\ RpcCtx' = "canceled"
       /\ (cpc = "waiting" /\ httpCtx = "canceled" /\ cpc' = "returned") =>
            cliRet' = Ret(NilResp, "canceled")
       /\ (cpc = "idle" /\ httpCtx = "canceled") => ~reqNet'.present]_vars

C10_Witness ==
  /\ transport = "http" /\ httpCtx = "canceled" /\ gpc = "responded"
  /\ srvCalls = 1 /\ hdlRet.err = "nil"
  /\ cliRet = Ret(NilResp, "canceled") /\ httpResp.status = 499


\* C11: a client is safe for concurrent use: for any interleaving of calls in
\* flight on one client and one connection, a call that returns holds the
\* outcome the server produced for its own request (every call has an output
\* message of its own), and no step of a call waits for another call: a call
\* can enter, be served and return whatever the other calls are doing.
C11_ConcurrentCallsIndependent ==
  (calls # <<>>) =>
    \A i \in CallIds :
      /\ calls[i].pc = "returned" =>
           /\ calls[i].ret.err = calls[i].produced.err
           /\ calls[i].ret.err = "nil" =>
                /\ outs[calls[i].ret.resp] = calls[i].produced.resp
                /\ outs[calls[i].ret.resp].type = calls[i].m
           /\ calls[i].ret.err # "nil" => calls[i].ret.resp = NilResp
      /\ calls[i].pc = "idle" => ENABLED ConcEnterOf(i)
      /\ calls[i].wire = "req" => ENABLED ConcServeOf(i)
      /\ calls[i].wire = "reply" => ENABLED ConcReturnOf(i)

C11_Witness ==
  /\ calls # <<>>
  /\ calls[1].pc = "waiting" /\ calls[1].wire = "reply" /\ calls[1].m = "Login"
  /\ calls[1].reply.resp.val = "r1"
  /\ calls[2].pc = "returned" /\ calls[2].m = "Login" /\ calls[2].ret.err = "nil"
  /\ outs[calls[2].ret.resp].val = "r2"


\* C12: round trip: for every message type of the four schemas, encoding a
\* value to the wire form (binary or JSON) and decoding it again yields a
\* value equal to the original in every field, and a repeated field keeps
\* its elements in their order.
C12_RoundTrip ==
  codec.pc = "decoded" =>
    /\ codec.back = codec.val
    /\ \A n \in FieldNames(codec.type) :
         /\ codec.back.v[n] = codec.val.v[n]
         /\ FieldNamed(codec.type, n).rep =>
              /\ Len(codec.back.v[n].v) = Len(codec.val.v[n].v)
              /\ \A i \in 1..Len(codec.val.v[n].v) :
                   codec.back.v[n].v[i] = codec.val.v[n].v[i]

C12_Witness ==
  /\ codec.pc = "decoded" /\ codec.type = "Order" /\ codec.form = "json"
  /\ Len(codec.val.v.items.v) = 2
  /\ codec.val.v.items.v[1].v.product_price = Num(25000)
  /\ codec.val.v.items.v[2].v.product_price = Num(0)
  /\ codec.wire.items.v[1].v.product_price.v = "25000"
  /\ codec.back.v.items.v[1].v.product_price = Num(25000)


\* C13 as claimed: the transaction id (tid) issued in a KakaoReadyResponse is
\* echoed back by the caller on both follow-up calls: the KakaoApproveRequest
\* and the KakaoCancelRequest each carry a tid field holding it.
C13_TidEchoedOnApproveAndCancel ==
  /\ flow.approveReq # NilMsg =>
       /\ "tid" \in DOMAIN flow.approveReq.v
       /\ flow.approveReq.v.tid = flow.readyResp.v.tid
  /\ flow.cancelReq # NilMsg =>
       /\ "tid" \in DOMAIN flow.cancelReq.v
       /\ flow.cancelReq.v.tid = flow.readyResp.v.tid

\* C13 as amended: the tid issued in a KakaoReadyResponse is echoed back in
\* the tid field of the KakaoApproveRequest; a KakaoCancelRequest has no tid
\* field and names the payment by partner_order_id, the one the ready and
\* approve requests carried.
C13_TidEchoedOnApprove ==
  /\ "tid" \in FieldNames("KakaoReadyResponse")
  /\ "tid" \in FieldNames("KakaoApproveRequest")
  /\ "tid" \notin FieldNames("KakaoCancelRequest")
  /\ flow.approveReq # NilMsg =>
       /\ flow.approveReq.v.tid = flow.readyResp.v.tid
       /\ flow.approveReq.v.partner_order_id = flow.readyReq.v.partner_order_id
  /\ flow.cancelReq # NilMsg =>
       /\ "tid" \notin DOMAIN flow.cancelReq.v
       /\ flow.cancelReq.v.partner_order_id = flow.approveReq.v.partner_order_id

C13_Witness ==
  /\ flow.pc = "done"
  /\ flow.readyResp.v.tid = Str("T1")
  /\ flow.approveReq.v.tid = Str("T1")
  /\ flow.cancelReq.v.partner_order_id = Str("ORDER123")


\* the server's answer to GetProductByID of the example
C14_Answer == Ret(Msg([product |-> ProductSample("prod001")]), "nil")

\* C14 as claimed: when the server answers GetProductByID for id "prod001"
\* with the product {id "prod001", name "Case", price 25000}, GET
\* /products/prod001 returns HTTP 200 with a JSON body whose top-level members
\* are the product's own fields id, name and price.
C14_ProductFieldsAtTopLevel ==
  (gpc = "responded" /\ route = "GetProductByID" /\ hdlRet = C14_Answer) =>
    /\ httpResp.status = 200
    /\ {"id", "name", "price"} \subseteq DOMAIN httpResp.body
    /\ httpResp.body.id.v = "prod001" /\ httpResp.body.name.v = "Case"

\* C14 as amended: in that case GET /products/prod001 returns HTTP 200 with a
\* JSON body whose one top-level member is product, an object holding the
\* product's fields id "prod001", name "Case" and price, the int64 price
\* always rendered as the JSON string of its decimal digits, "25000".
C14_ProductUnderProductMember ==
  (gpc = "responded" /\ route = "GetProductByID" /\ hdlRet = C14_Answer) =>
    /\ req.verb = "GET" /\ req.path = <<"products", "prod001">>
    /\ gwIn.v.id = Str("prod001")
    /\ httpResp.status = 200
    /\ DOMAIN httpResp.body = {"product"}
    /\ httpResp.body.product.k = "obj"
    /\ {"id", "name", "price"} \subseteq DOMAIN httpResp.body.product.v
    /\ DOMAIN httpResp.body.product.v \subseteq FieldNames("Product")
    /\ httpResp.body.product.v.id = [k |-> "jstr", v |-> "prod001"]
    /\ httpResp.body.product.v.name = [k |-> "jstr", v |-> "Case"]
    /\ httpResp.body.product.v.price = [k |-> "jstr", v |-> "25000"]

C14_Witness ==
  /\ gpc = "responded" /\ route = "GetProductByID" /\ hdlRet = C14_Answer
  /\ httpResp.status = 200 /\ httpResp.body.product.v.price.v = "25000"

\* an InsertOrder request without user_id has reached the gateway's binding
C15_OmitsUserId ==
  /\ route = "InsertOrder"
  /\ gpc \in {"bound", "invoked", "responded"}
  /\ "user_id" \notin DOMAIN req.body.fields

C16_TranslatorStateless ==
  /\ \A i \in 1..Len(prev) :
       /\ (prev[i].req = req /\ gpc # "received") => route = prev[i].route
       /\ (gpc = "responded" /\ prev[i].route = route /\ prev[i].ret = cliRet) =>
            httpResp = prev[i].resp
  /\ (gpc # "received" /\ req.verb = "POST" /\ req.path = <<"payment", "kakao", "cancel">>) =>
       route = "KakaoCancel"
  /\ (gpc = "responded" /\ cliRet # NoRet) =>
       httpResp.status = HTTPStatusFromCode(cliRet.err)

C16_Witness ==
  /\ Len(prev) = 1 /\ prev[1].req = req /\ prev[1].route = "KakaoCancel"
  /\ req.body.ok
  /\ gpc = "responded" /\ route = "KakaoCancel"
  /\ prev[1].ret.err = "nil" /\ cliRet = prev[1].ret
  /\ prev[1].resp.status = 200 /\ httpResp = prev[1].resp

\* the schema that declares message T, and the schemas that declare a name
SchemasDeclaring(T) == {sch \in SchemaNames : T \in DOMAIN SchemaMessages(sch)}

\* the message types the fields of T refer to
MessageRefs(sch, T) ==
  {SchemaMessages(sch)[T][i].type : i \in DOMAIN SchemaMessages(sch)[T]} \ ScalarTypes

\* C17: the four schemas are independent. No message of one schema has a field
\* typed by a message another schema declares (every message-typed field
\* resolves inside the declaring file), no message name is declared by two
\* schemas, no service or method name belongs to two schemas, and every value
\* the codec handles is built from declarations of one schema only.
C17_SchemasIndependent ==
  /\ \A sch \in SchemaNames : \A T \in DOMAIN SchemaMessages(sch) :
       MessageRefs(sch, T) \subseteq DOMAIN SchemaMessages(sch)
  /\ \A T \in MessageNames : Cardinality(SchemasDeclaring(T)) = 1
  /\ Cardinality(Services) = 4
  /\ \A m \in Methods :
       Cardinality({M \in {AccountMethods, OrderMethods, PaymentMethods, ProductMethods} :
                      m \in M}) = 1
  /\ codec.pc # "none" =>
       \A sch \in SchemasDeclaring(codec.type) :
         \A i \in DOMAIN FieldsOf(codec.type) :
           FieldsOf(codec.type)[i].type \in ScalarTypes \cup DOMAIN SchemaMessages(sch)

\* a product response, whose product field is typed by a message of its own
\* schema, has been encoded and decoded
C17_Witness ==
  /\ codec.pc = "decoded"
  /\ codec.type = "GetProductByIDResponse"
  /\ MessageRefs("product", "GetProductByIDResponse") = {"Product"}
  /\ codec.back = codec.val

\* the fields that carry a monetary amount, and the schemas that have them
MoneyFieldNames ==
  {"total_price", "product_price", "price", "shipping_fee", "total_amount",
   "tax_free_amount", "cancel_amount", "cancel_tax_free_amount", "cancel_vat_amount",
   "cancel_available_amount"}

MoneySchemas == {"order", "payment", "product"}
IntegerTypes == {"int32", "int64"}

\* the monetary fields message T of schema sch declares with a non-integer type
NonIntegerMoney(sch, T) ==
  {SchemaMessages(sch)[T][i].name : i \in
     {j \in DOMAIN SchemaMessages(sch)[T] :
        /\ SchemaMessages(sch)[T][j].name \in MoneyFieldNames
        /\ SchemaMessages(sch)[T][j].type \notin IntegerTypes}}

\* C18: every field that carries a monetary amount in the Order, Product and
\* Payment messages is declared with an integer type, and the payment requests
\* a client builds carry their amounts as integers.
C18_MoneyFieldsAreIntegers ==
  /\ \A sch \in MoneySchemas : \A T \in DOMAIN SchemaMessages(sch) :
       NonIntegerMoney(sch, T) = {}
  /\ \A built \in {flow.readyReq, flow.cancelReq} :
       built # NilMsg =>
         \A n \in MoneyFieldNames \cap DOMAIN built.v : built.v[n].k = "int"

\* C19: when NewClientSet succeeds, the Account, Order, Payment and Product
\* clients of the set all use one and the same connection, the only one
\* created, and that connection is the one ClientSet.Close closes (it stays
\* open until Close and is closed by every Close); when the connection cannot
\* be created the set is nil, no connection exists, and the error wraps the
\* cause the dial reported.
C19_ClientSetSharesOneConnection ==
  (cset.pc # "none" /\ cset.kind = "shared") =>
    /\ cset.pc \in {"ready", "closed"} =>
         /\ cset.err = NoErr
         /\ Len(conns) = 1 /\ cset.set.conn = 1
         /\ \A c \in {"Account", "Order", "Payment", "Product"} :
              cset.set[c] = cset.set.conn
         /\ conns[cset.set.conn].open = (cset.pc = "ready")
         /\ conns[cset.set.conn].closes = cset.closeCalls
    /\ cset.pc = "failed" =>
         /\ cset.set = NilSet /\ conns = <<>>
         /\ cset.err.msg = "failed to create connection"
         /\ cset.err.cause \in DialErrors

\* a set built on one connection has been closed once
C19_Witness ==
  /\ cset.pc = "closed" /\ cset.kind = "shared" /\ cset.closeCalls = 1
  /\ cset.set.Account = 1 /\ cset.set.Product = 1
  /\ ~conns[1].open

\* C20: NewDistributedClientSet opens its connections in the order account,
\* order, payment, product; when opening the k-th fails it returns a nil set
\* and an error that names the k-th service and wraps the cause, and every
\* connection opened before the failure has been closed, so none stays open
\* after the error return; no connection is closed while it still succeeds.
C20_DistributedFailureClosesOpened ==
  (cset.pc # "none" /\ cset.kind = "distributed") =>
    /\ Len(conns) <= Len(ServiceOrder)
    /\ \A i \in DOMAIN conns : conns[i].target = ServiceAddresses[ServiceOrder[i]]
    /\ cset.pc \in {"start", "dialing", "ready"} =>
         /\ cset.err = NoErr
         /\ \A i \in DOMAIN conns : conns[i].open
    /\ cset.pc = "failed" =>
         /\ cset.set = NilSet
         /\ Len(conns) < Len(ServiceOrder)
         /\ cset.err.msg = "failed to connect to " \o ServiceOrder[Len(conns) + 1] \o " service"
         /\ cset.err.cause \in DialErrors
         /\ \A i \in DOMAIN conns : ~conns[i].open /\ conns[i].closes = 1

\* the product connection failed after the three before it were opened
C20_Witness ==
  /\ cset.pc = "failed" /\ cset.kind = "distributed"
  /\ Len(conns) = 3
  /\ cset.err = Wrap("failed to connect to product service", "context deadline exceeded")
  /\ \A i \in 1..3 : ~conns[i].open

\* the connections of the table whose latest Close answered an error
FailedCloses == {i \in DOMAIN conns : conns[i].closeErr # "nil"}

\* the greatest member of a non-empty set of connection ids
LastOf(ids) == CHOOSE i \in ids : \A j \in ids : j <= i

\* C21: DistributedClientSet.Close calls Close on every one of its
\* connections, also on those after one whose Close failed; it returns nil
\* exactly when every one of these closes answered nil, and otherwise returns
\* the error of the last connection, in the order of the set, whose Close
\* failed.
C21_CloseAttemptsAllReturnsLastError ==
  (cset.pc = "closed" /\ cset.kind = "distributed") =>
    /\ Len(conns) = Len(ServiceOrder)
    /\ \A i \in DOMAIN conns : ~conns[i].open /\ conns[i].closes = cset.closeCalls
    /\ (cset.closeRet = "nil") <=> (FailedCloses = {})
    /\ FailedCloses # {} => cset.closeRet = conns[LastOf(FailedCloses)].closeErr

\* the first close failed, the third failed with another error, the fourth
\* succeeded: all four were attempted and the third's error is returned
C21_Witness ==
  /\ cset.pc = "closed" /\ cset.kind = "distributed" /\ cset.closeCalls = 1
  /\ conns[1].closeErr = "close failed" /\ conns[2].closeErr = "nil"
  /\ conns[3].closeErr = "grpc: the client connection is closing"
  /\ conns[4].closeErr = "nil" /\ conns[4].closes = 1
  /\ cset.closeRet = "grpc: the client connection is closing"

\* C22: NewConnection bounds connection establishment by config.DialTimeout:
\* a connection that is not established when the timeout has passed is not
\* returned (NewConnection returns an error and no connection instead), so
\* every connection NewConnection returned was established by its deadline.
C22_DialTimeoutBoundsEstablishment ==
  \A i \in DOMAIN conns : conns[i].deadline # "missed"

\* the transport credentials among the options connection i was dialled with
TransportCredentials(i) ==
  SelectSeq(conns[i].opts, LAMBDA o : o.opt = "WithTransportCredentials")

\* C23: NewConnection configures exactly one transport credential: insecure
\* when config.Insecure is true, and TLS with ServerName = config.Authority
\* otherwise; a connection built from DefaultClientConfig is insecure and one
\* built from ProductionClientConfig is TLS, for every address.
C23_ExactlyOneTransportCredential ==
  cset.pc # "none" =>
    \A i \in DOMAIN conns :
      LET config == ConfigOf(cset.fn, conns[i].target)
          creds == TransportCredentials(i) IN
        /\ Len(creds) = 1
        /\ config.Insecure => creds[1].arg.kind = "insecure"
        /\ ~config.Insecure =>
             creds[1].arg = [kind |-> "tls", ServerName |-> config.Authority]
        /\ cset.fn \in {"DefaultClientConfig", "DefaultClientConfig+Authority"} =>
             creds[1].arg.kind = "insecure"
        /\ cset.fn \in {"ProductionClientConfig", "ProductionClientConfig+Authority"} =>
             creds[1].arg.kind = "tls"

\* a production configuration with an authority has been dialled, and a
\* default one for another address is what another run dialled
C23_Witness ==
  /\ cset.pc = "ready" /\ cset.fn = "ProductionClientConfig+Authority"
  /\ conns[1].target = "api.example.com:443"
  /\ Len(TransportCredentials(1)) = 1
  /\ TransportCredentials(1)[1].arg = [kind |-> "tls", ServerName |-> CustomAuthority]

\* the calls of fn that failed with an error outside the three retried kinds
NotRetryable ==
  {k \in DOMAIN retry.fnCalls :
     /\ retry.fnCalls[k].err # NilError
     /\ ~(retry.fnCalls[k].err.grpc /\ retry.fnCalls[k].err.code \in RetryCodes)}

\* C24: retryableCall retries only failures of the kinds unavailable,
\* deadline-exceeded and resource-exhausted: a call of fn that fails with any
\* other error is the last call of fn, and its error is what retryableCall
\* returns.
C24_OnlyTransientKindsRetried ==
  retry.pc # "none" =>
    \A k \in NotRetryable :
      /\ k = Len(retry.fnCalls)
      /\ retry.pc = "returned" => retry.ret.err = retry.fnCalls[k].err

\* C25: retryableCall ends after at most maxRetries calls of fn; it sleeps
\* baseDelay * 2^i only between attempt i and attempt i+1; it returns the
\* first successful result with a nil error; and when every attempt failed it
\* returns a non-nil error, the error of the last attempt.
C25_BoundedAttemptsLastError ==
  retry.pc # "none" =>
    /\ Len(retry.fnCalls) <= maxRetries
    /\ \A j \in DOMAIN retry.sleeps :
         /\ retry.sleeps[j].delay = baseDelay * (2 ^ retry.sleeps[j].i)
         /\ retry.sleeps[j].i + 1 <= Len(retry.fnCalls)
         /\ retry.sleeps[j].i + 1 < maxRetries
         /\ \A h \in DOMAIN retry.sleeps : h < j => retry.sleeps[h].i < retry.sleeps[j].i
    /\ \A k \in DOMAIN retry.fnCalls :
         retry.fnCalls[k].err = NilError => k = Len(retry.fnCalls)
    /\ retry.pc = "returned" =>
         LET last == retry.fnCalls[Len(retry.fnCalls)] IN
           IF last.err = NilError
           THEN retry.ret = [result |-> last.result, err |-> NilError]
           ELSE retry.ret.err # NilError /\ retry.ret.err = last.err

\* the dispatch-table entries of AccountService a full method name addresses
EntriesFor(name) ==
  {e \in ServiceDesc("AccountService").Methods :
     "/" \o ServiceDesc("AccountService").ServiceName \o "/" \o e.MethodName = name}

\* C26: client and server address each AccountService method by the same
\* fixed name. For each of the four methods the client's full method name is
\* "/" + ServiceName + "/" + MethodName of exactly one dispatch-table entry;
\* that entry's handler invokes the server method of the same name and gives
\* interceptors the same full method name. So the method that runs for a call
\* is the one the client called, and an interceptor sees the name the client
\* sent.
C26_SameNameOnBothSides ==
  /\ \A m \in AccountMethods :
       /\ Cardinality(EntriesFor(FullMethodName(m))) = 1
       /\ \A e \in EntriesFor(FullMethodName(m)) :
            /\ e.MethodName = m
            /\ HandlerInfo(e.Handler).invokes = m
            /\ HandlerInfo(e.Handler).FullMethod = FullMethodName(m)
  /\ (transport = "grpc" /\ callM \in AccountMethods) =>
       /\ srvCalls > 0 => srvM = callM
       /\ icCalls > 0 => icInfo = rpcName /\ icInfo = FullMethodName(callM)

\* a Login call went through an interceptor to the Login method
C26_Witness ==
  /\ transport = "grpc" /\ callM = "Login" /\ interceptor = "pass"
  /\ srvCalls = 1 /\ srvM = "Login" /\ icCalls = 1
  /\ icInfo = "/go.escape.ship.proto.v1.AccountService/Login"

\* how often an interceptor calls the handler it is given
HandlerCallsBy(ic) ==
  CASE ic = "pass" -> 1 [] ic = "twice" -> 2 [] ic = "deny" -> 0

\* C27 as stated: a method handler invokes the service method at most once
\* per call: exactly once when no interceptor is installed, and with an
\* interceptor only when the interceptor calls the handler it was given; with
\* a pass-through interceptor the result equals the one without interceptor.
C27_AtMostOncePerCall ==
  /\ srvCalls <= 1
  /\ (interceptor = "nil" /\ decRet # "none") => srvCalls = 1
  /\ (interceptor # "nil" /\ srvCalls > 0) => icCalls > 0
  /\ \A dk \in DecodeErrKinds \cup {"nil"} : \A m \in AccountMethods :
     \A svc \in CustomOutcomes(m) \cup {Unimplemented(m)} :
       Handler(dk, "pass", svc).ret = Handler(dk, "nil", svc).ret

\* C27, amended: once the request has decoded, a method handler invokes the
\* service method exactly once when no interceptor is installed; with an
\* interceptor it never invokes it itself, and the service method runs once
\* for each time the interceptor calls the handler it was given (not at all
\* when the interceptor refuses, once when it passes the call through, twice
\* when it calls the handler twice); when the request does not decode neither
\* the interceptor nor the service method runs; with a pass-through
\* interceptor the handler's result equals the result without an interceptor.
C27_OncePerHandlerCall ==
  /\ decRet = "nil" =>
       /\ interceptor = "nil" => srvCalls = 1 /\ icCalls = 0
       /\ interceptor # "nil" => icCalls = 1 /\ srvCalls = HandlerCallsBy(interceptor)
  /\ decRet \in DecodeErrKinds => srvCalls = 0 /\ icCalls = 0
  /\ decRet = "none" => srvCalls = 0 /\ icCalls = 0
  /\ \A dk \in DecodeErrKinds \cup {"nil"} : \A m \in AccountMethods :
     \A svc \in CustomOutcomes(m) \cup {Unimplemented(m)} :
       Handler(dk, "pass", svc).ret = Handler(dk, "nil", svc).ret

\* an interceptor called the handler of Register twice
C27_Witness ==
  /\ interceptor = "twice" /\ callM = "Register" /\ decRet = "nil"
  /\ icCalls = 1 /\ srvCalls = 2 /\ srvM = "Register"

\* C28: in ExampleKakaoPaymentFlow the calls happen only in the order
\* GetProductByID, InsertOrder, KakaoReady, KakaoApprove, each one issued only
\* after the previous one succeeded, all on the one shared connection;
\* KakaoReady and KakaoApprove carry the id InsertOrder returned as partner
\* order id, KakaoApprove carries the tid KakaoReady returned; and once the
\* flow has exited, by return or by panic, the shared connection, if one was
\* created, has been closed, while it stays open as long as the flow runs.
C28_FlowOrderDataAndClose ==
  example.pc # "none" =>
    /\ Len(example.issued) <= Len(ExampleSteps)
    /\ \A k \in DOMAIN example.issued :
         /\ example.issued[k].method = ExampleSteps[k]
         /\ example.issued[k].conn = 1
         /\ k > 1 => example.issued[k - 1].err = "nil"
    /\ Len(example.issued) >= 3 =>
         example.issued[3].req.partner_order_id = example.order.id
    /\ Len(example.issued) >= 4 =>
         /\ example.issued[4].req.partner_order_id = example.order.id
         /\ example.issued[4].req.tid = example.paymentReady.tid
    /\ example.pc = "exited" =>
         \A i \in DOMAIN conns : ~conns[i].open /\ conns[i].closes = 1
    /\ example.pc \notin {"start", "exited"} =>
         Len(conns) = 1 /\ conns[1].open
    /\ example.exit = "return" =>
         Len(example.issued) = 4 /\ example.issued[4].err = "nil"

\* the flow returned after four successful calls and its connection is closed
C28_Witness ==
  /\ example.pc = "exited" /\ example.exit = "return"
  /\ Len(example.issued) = 4
  /\ example.issued[3].req.partner_order_id = "order-1"
  /\ example.issued[4].req = [tid |-> "T1", partner_order_id |-> "order-1",
                              partner_user_id |-> "user123",
                              pg_token |-> "payment_token_from_kakao_callback"]
  /\ Len(conns) = 1 /\ ~conns[1].open

\* the GetClient calls that hold the read lock
InGetClient == {g \in PoolCallers : pool.callers[g].pc \in {"locked", "picked", "loaded", "stored"}}

\* C29: ConnectionPool.GetClient is race-free under concurrent callers: no
\* two GetClient calls are reading and updating p.current at the same time,
\* so once n calls on a pool of n clients have returned, however they were
\* interleaved, every client has been handed out exactly once; and p.current
\* always stays within [0, len(p.clients)).
C29_GetClientRaceFree ==
  pool.pc # "none" =>
    /\ Cardinality(InGetClient) <= 1
    /\ (\A g \in PoolCallers : pool.callers[g].pc = "returned") =>
         \A c \in 0..(PoolSize - 1) :
           Cardinality({g \in PoolCallers : pool.callers[g].client = c}) = 1
    /\ pool.current \in 0..(PoolSize - 1)

====
